---------------------------- MODULE Spec2Model ----------------------------
(***************************************************************************)
(* A model of the BusTub storage and concurrency primitives:               *)
(*   - the lock manager (src/concurrency/lock_manager.cpp),                *)
(*   - the extendible hash index                                           *)
(*     (src/container/hash/extendible_hash_table.cpp and                   *)
(*      src/storage/page/hash_table_bucket_page.cpp).                      *)
(*   - the LRU replacer (src/buffer/lru_replacer.cpp),                     *)
(*   - the parallel buffer pool                                            *)
(*     (src/buffer/parallel_buffer_pool_manager.cpp) over buffer pool      *)
(*     instances,                                                          *)
(*   - the sequential scan, delete, update and hash join executors         *)
(*     (src/execution).                                                    *)
(* Every handler of the code is one action; a handler that blocks on a     *)
(* condition variable is cut at the wait, which is the only place where    *)
(* the global latch is released.                                           *)
(***************************************************************************)
EXTENDS Integers, Sequences, FiniteSets, TLC

\* ------------------------------------------------------------------ bounds
\* Transactions have ids 0..MaxTxnId (a smaller id is an older transaction).
MaxTxnId == 2
\* Record ids are 1..NumRids.
NumRids == 1
\* Length of the recorded call history of the scenario specification.
MaxHist == 4

VARIABLES
  \* --- lock manager and transactions
  txns,       \* ids of the transactions the transaction manager created
  iso,        \* Transaction::isolation_level_
  state,      \* Transaction::state_
  shared,     \* Transaction::shared_lock_set_
  excl,       \* Transaction::exclusive_lock_set_
  queue,      \* lock_table_[rid].request_queue_
  upgrading,  \* lock_table_[rid].upgrading_
  pc,         \* where each transaction's thread is inside the lock manager
  arg,        \* the rid of the call a thread is blocked in (NoRid when idle)
  crashed,    \* an assert of the lock manager failed: the process aborted
  \* --- observation of the calls (history variables)
  last,       \* the call that returned most recently, with its result
  held,       \* per transaction and rid: the modes granted and not yet released
  wounded,    \* transactions set ABORTED by another transaction's lock call
  tracing,    \* TRUE in the scenario specification: calls are recorded
  hist        \* the calls made so far, in order (scenario specification)

lmVars == <<txns, iso, state, shared, excl, queue, upgrading, pc, arg, crashed,
            last, held, wounded, tracing, hist>>

VARIABLES
  \* --- extendible hash table
  table,      \* the directory page, the bucket pages and their pin counts
  ref         \* history: the pairs inserted and not removed since

htVars == <<table, ref>>

VARIABLES
  \* --- threads calling the hash table concurrently
  thread      \* per thread: the call it is in and the lock section it is at

VARIABLES
  \* --- LRU replacer
  list_,      \* LRUReplacer::list_, front first
  map_,       \* LRUReplacer::map_: the frames that have an entry
  max_size_,  \* LRUReplacer::max_size_
  arrival,    \* history: the frames present, in the order they came in
  lruLast,    \* history: the call that returned most recently, with its result
  lruHist     \* history: the calls so far while they are at most MaxLruHist
              \* Unpin and Victim calls (scenario specification)

lruVars == <<list_, map_, max_size_, arrival, lruLast, lruHist>>

VARIABLES
  \* --- parallel buffer pool manager
  buffer_pools_,  \* ParallelBufferPoolManager::buffer_pools_: the instances
  start_index_,   \* ParallelBufferPoolManager::start_index_
  bpLast          \* history: the call that returned most recently

bpVars == <<buffer_pools_, start_index_, bpLast>>

VARIABLES
  \* --- executors
  exec,      \* per transaction: the statement it runs and where it is in it
  execLast,  \* history: the last thing an executor did
  join       \* HashJoinExecutor: children's output, map_, result_, now_id_

exVars == <<exec, execLast, join>>

restVars == <<bpVars, exVars>>

vars == <<lmVars, htVars, thread, lruVars, restVars>>

\* ------------------------------------------------------------ lock manager

\* The transaction id that line 113 of LockExclusive treats apart.
SpecialTxnId == 9

\* The ids of the transactions the specifications create by default.
PlainTxnIds == 0..MaxTxnId
TxnIds == PlainTxnIds \cup {SpecialTxnId}
Rids == 1..NumRids
NoRid == NumRids + 1

IsolationLevels == {"READ_UNCOMMITTED", "REPEATABLE_READ", "READ_COMMITTED"}

\* std::list::erase(iter): the queue without its i-th entry.
EraseAt(q, i) == SubSeq(q, 1, i - 1) \o SubSeq(q, i + 1, Len(q))

QueueTxns(q) == {q[i].txn_id : i \in 1..Len(q)}

\* LockRequest{txn_id, lock_mode}: granted_ starts false.
LockRequest(t, mode) == [txn_id |-> t, lock_mode |-> mode, granted |-> FALSE]

\* (mutant) a request is appended whether or not the transaction has one.
InsertAlwaysAppends(q, t, mode) == Append(q, LockRequest(t, mode))

InsertTxnIntoLockQueue(q, t, mode) ==
  IF \E i \in 1..Len(q) : q[i].txn_id = t
  THEN LET i == CHOOSE j \in 1..Len(q) :
                  q[j].txn_id = t /\ \A k \in 1..(j - 1) : q[k].txn_id # t
       IN [q EXCEPT ![i].granted = (mode = "EXCLUSIVE")]
  ELSE Append(q, LockRequest(t, mode))

\* The part of the state a queue scan reads and writes.
ScanState(q) == [q |-> q, state |-> state, shared |-> shared, excl |-> excl,
                 out |-> "scan"]

\* (mutant) the wound forgets to purge the rid from the victim's lock sets.
WoundAtKeepsLockSets(st, i, r) ==
  LET u == st.q[i].txn_id
  IN [st EXCEPT !.q = EraseAt(st.q, i), !.state[u] = "ABORTED"]

\* Erase entry i of the queue, purge rid r from its transaction, abort it.
WoundAt(st, i, r) ==
  LET u == st.q[i].txn_id
  IN [st EXCEPT !.q = EraseAt(st.q, i),
                !.excl[u] = @ \ {r},
                !.shared[u] = @ \ {r},
                !.state[u] = "ABORTED"]

\* The while loop of LockShared from entry i on.
RECURSIVE ScanShared(_, _, _, _)
ScanShared(st, t, r, i) ==
  IF i > Len(st.q) THEN [st EXCEPT !.out = "pass"]
  ELSE LET u == st.q[i].txn_id IN
    IF u > t /\ r \in st.excl[u] THEN ScanShared(WoundAt(st, i, r), t, r, i)
    ELSE IF u < t /\ r \in st.excl[u]
         THEN [st EXCEPT !.q = InsertTxnIntoLockQueue(st.q, t, "SHARED"),
                         !.shared[t] = @ \cup {r},
                         !.out = "wait"]
         ELSE ScanShared(st, t, r, i + 1)

\* The while loop of LockExclusive from entry i on.
RECURSIVE ScanExclusive(_, _, _, _)
ScanExclusive(st, t, r, i) ==
  IF i > Len(st.q) THEN [st EXCEPT !.out = "pass"]
  ELSE LET u == st.q[i].txn_id IN
    IF u > t \/ t = SpecialTxnId THEN ScanExclusive(WoundAt(st, i, r), t, r, i)
    ELSE IF u < t
         THEN [st EXCEPT !.excl[t] = @ \ {r},
                         !.shared[t] = @ \ {r},
                         !.state[t] = "ABORTED",
                         !.out = "die"]
         ELSE ScanExclusive(st, t, r, i + 1)

\* The while loop of LockUpgrade from entry i on.
RECURSIVE ScanUpgrade(_, _, _, _)
ScanUpgrade(st, t, r, i) ==
  IF i > Len(st.q) THEN [st EXCEPT !.out = "pass"]
  ELSE LET u == st.q[i].txn_id IN
    IF u > t THEN ScanUpgrade(WoundAt(st, i, r), t, r, i)
    ELSE IF u < t THEN [st EXCEPT !.out = "wait"]
         ELSE ScanUpgrade(st, t, r, i + 1)


\* ---- what a call leaves behind for the observer

LockOps == {"LockShared", "LockExclusive", "LockUpgrade"}

NoCall == [txn |-> 0, op |-> "none", rid |-> NoRid, val |-> FALSE, pre |-> "GROWING",
           slept |-> FALSE]

\* The call returns val to transaction t; pre is t's state when the pass of
\* the handler that returned began (at the call, or at the wake-up); slept
\* tells whether the call had waited on the condition variable.
Return(t, op, r, val) ==
  /\ pc' = [pc EXCEPT ![t] = "idle"]
  /\ arg' = [arg EXCEPT ![t] = NoRid]
  /\ last' = [txn |-> t, op |-> op, rid |-> r, val |-> val, pre |-> state[t],
               slept |-> (pc[t] # "idle")]

\* lock_queue.cv_.wait(unique_latch): the thread sleeps at label `at`.
Block(t, r, at) ==
  /\ pc' = [pc EXCEPT ![t] = at]
  /\ arg' = [arg EXCEPT ![t] = r]
  /\ last' = last

\* The scenario specification records each call with its immediate outcome.
Record(call, op, t, r, out) ==
  hist' = IF call /\ tracing
          THEN Append(hist, [op |-> op, txn |-> t, rid |-> r, out |-> out])
          ELSE hist

CanCall(t) ==
  /\ ~crashed
  /\ t \in txns
  /\ pc[t] = "idle"
  /\ tracing => Len(hist) < MaxHist

\* The transactions a scan erased from the queue of r (other than the caller).
Victims(t, r, st) == (QueueTxns(queue[r]) \ QueueTxns(st.q)) \ {t}

\* Write a scan's result back.
ApplyScan(t, r, st) ==
  /\ queue' = [queue EXCEPT ![r] = st.q]
  /\ wounded' = wounded \cup Victims(t, r, st)

HeldAfterScan(t, r, st, mine) ==
  [u \in TxnIds |->
     IF u = t THEN [held[u] EXCEPT ![r] = mine]
     ELSE IF u \in Victims(t, r, st) THEN [held[u] EXCEPT ![r] = {}]
     ELSE held[u]]

\* (mutant) LockShared without the ABORTED check after a wake-up.
SharedBailsOutNever(t) == FALSE

\* LockShared gives up at once for an aborted transaction (lines 42-44).
SharedBailsOut(t) == state[t] = "ABORTED"

\* (mutant) the variant left in the comment of lines 99-100.
ExclusiveRefusesOnlyRR(t) ==
  state[t] = "SHRINKING" /\ iso[t] = "REPEATABLE_READ"

\* LockExclusive refuses a transaction that already released a lock (101-104).
ExclusiveRefuses(t) == state[t] = "SHRINKING"

\* The body of LockShared from the label ShareCheck.
ShareCheck(t, r, call) ==
  IF SharedBailsOut(t) THEN
    /\ Return(t, "LockShared", r, FALSE)
    /\ Record(call, "LockShared", t, r, "false")
    /\ UNCHANGED <<state, shared, excl, queue, upgrading, crashed, held, wounded>>
  ELSE IF iso[t] = "READ_UNCOMMITTED" \/ state[t] = "SHRINKING" THEN
    /\ state' = [state EXCEPT ![t] = "ABORTED"]
    /\ Return(t, "LockShared", r, FALSE)
    /\ Record(call, "LockShared", t, r, "false")
    /\ UNCHANGED <<shared, excl, queue, upgrading, crashed, held, wounded>>
  ELSE IF r \in shared[t] THEN
    /\ Return(t, "LockShared", r, TRUE)
    /\ Record(call, "LockShared", t, r, "true")
    /\ held' = [held EXCEPT ![t][r] = @ \cup {"SHARED"}]
    /\ UNCHANGED <<state, shared, excl, queue, upgrading, crashed, wounded>>
  ELSE LET st == ScanShared(ScanState(queue[r]), t, r, 1) IN
    IF st.out = "wait" THEN
      /\ state' = st.state
      /\ shared' = st.shared
      /\ excl' = st.excl
      /\ ApplyScan(t, r, st)
      /\ held' = HeldAfterScan(t, r, st, held[t][r])
      /\ Block(t, r, "ShareWait")
      /\ Record(call, "LockShared", t, r, "blocked")
      /\ UNCHANGED <<upgrading, crashed>>
    ELSE
      /\ state' = [st.state EXCEPT ![t] = "GROWING"]
      /\ queue' = [queue EXCEPT ![r] = InsertTxnIntoLockQueue(st.q, t, "SHARED")]
      /\ wounded' = wounded \cup Victims(t, r, st)
      /\ shared' = [st.shared EXCEPT ![t] = @ \cup {r}]
      /\ excl' = st.excl
      /\ held' = HeldAfterScan(t, r, st, held[t][r] \cup {"SHARED"})
      /\ Return(t, "LockShared", r, TRUE)
      /\ Record(call, "LockShared", t, r, "true")
      /\ UNCHANGED <<upgrading, crashed>>

LockSharedCall(t, r) ==
  /\ CanCall(t)
  /\ ShareCheck(t, r, TRUE)
  /\ UNCHANGED <<htVars, thread, lruVars, bpVars, txns, iso, tracing>>

LockShared(t, r) == LockSharedCall(t, r) /\ UNCHANGED exVars

\* A thread woken in LockShared runs the handler again from ShareCheck.
ResumeShared(t) ==
  /\ ~crashed
  /\ pc[t] = "ShareCheck"
  /\ ShareCheck(t, arg[t], FALSE)
  /\ UNCHANGED <<htVars, thread, lruVars, restVars, txns, iso, tracing>>

LockExclusiveCall(t, r) ==
  /\ CanCall(t)
  /\ IF state[t] = "ABORTED" THEN
       /\ Return(t, "LockExclusive", r, FALSE)
       /\ Record(TRUE, "LockExclusive", t, r, "false")
       /\ UNCHANGED <<state, shared, excl, queue, held, wounded>>
     ELSE IF ExclusiveRefuses(t) THEN
       /\ state' = [state EXCEPT ![t] = "ABORTED"]
       /\ Return(t, "LockExclusive", r, FALSE)
       /\ Record(TRUE, "LockExclusive", t, r, "false")
       /\ UNCHANGED <<shared, excl, queue, held, wounded>>
     ELSE IF r \in excl[t] THEN
       /\ Return(t, "LockExclusive", r, TRUE)
       /\ Record(TRUE, "LockExclusive", t, r, "true")
       /\ held' = [held EXCEPT ![t][r] = @ \cup {"EXCLUSIVE"}]
       /\ UNCHANGED <<state, shared, excl, queue, wounded>>
     ELSE LET st == ScanExclusive(ScanState(queue[r]), t, r, 1) IN
       IF st.out = "die" THEN
         /\ state' = st.state
         /\ shared' = st.shared
         /\ excl' = st.excl
         /\ ApplyScan(t, r, st)
         /\ held' = HeldAfterScan(t, r, st, held[t][r])
         /\ Return(t, "LockExclusive", r, FALSE)
         /\ Record(TRUE, "LockExclusive", t, r, "false")
       ELSE
         /\ state' = [st.state EXCEPT ![t] = "GROWING"]
         /\ queue' = [queue EXCEPT ![r] = InsertTxnIntoLockQueue(st.q, t, "EXCLUSIVE")]
         /\ wounded' = wounded \cup Victims(t, r, st)
         /\ shared' = st.shared
         /\ excl' = [st.excl EXCEPT ![t] = @ \cup {r}]
         /\ held' = HeldAfterScan(t, r, st, held[t][r] \cup {"EXCLUSIVE"})
         /\ Return(t, "LockExclusive", r, TRUE)
         /\ Record(TRUE, "LockExclusive", t, r, "true")
  /\ UNCHANGED <<htVars, thread, lruVars, bpVars, txns, iso, tracing, upgrading, crashed>>

LockExclusive(t, r) == LockExclusiveCall(t, r) /\ UNCHANGED exVars

\* The body of LockUpgrade from the label upgCheck.
UpgCheck(t, r, call) ==
  IF state[t] = "ABORTED" THEN
    /\ Return(t, "LockUpgrade", r, FALSE)
    /\ Record(call, "LockUpgrade", t, r, "false")
    /\ UNCHANGED <<state, shared, excl, queue, upgrading, crashed, held, wounded>>
  ELSE IF state[t] = "SHRINKING" \/ upgrading[r] THEN
    /\ state' = [state EXCEPT ![t] = "ABORTED"]
    /\ Return(t, "LockUpgrade", r, FALSE)
    /\ Record(call, "LockUpgrade", t, r, "false")
    /\ UNCHANGED <<shared, excl, queue, upgrading, crashed, held, wounded>>
  ELSE LET st == ScanUpgrade(ScanState(queue[r]), t, r, 1) IN
    IF st.out = "wait" THEN
      /\ upgrading' = [upgrading EXCEPT ![r] = TRUE]
      /\ state' = st.state
      /\ shared' = st.shared
      /\ excl' = st.excl
      /\ ApplyScan(t, r, st)
      /\ held' = HeldAfterScan(t, r, st, held[t][r])
      /\ Block(t, r, "upgWait")
      /\ Record(call, "LockUpgrade", t, r, "blocked")
      /\ UNCHANGED crashed
    ELSE IF Len(st.q) # 1 \/ st.q[1].txn_id # t THEN
      \* assert(request_queue_.size() == 1); assert(request.txn_id_ == id)
      /\ crashed' = TRUE
      /\ UNCHANGED <<state, shared, excl, queue, upgrading, pc, arg, last, held,
                     wounded, hist>>
    ELSE
      /\ state' = [st.state EXCEPT ![t] = "GROWING"]
      /\ queue' = [queue EXCEPT ![r] = [st.q EXCEPT ![1].lock_mode = "EXCLUSIVE"]]
      /\ wounded' = wounded \cup Victims(t, r, st)
      /\ excl' = [st.excl EXCEPT ![t] = @ \cup {r}]
      /\ shared' = [st.shared EXCEPT ![t] = @ \ {r}]
      /\ upgrading' = [upgrading EXCEPT ![r] = FALSE]
      /\ held' = HeldAfterScan(t, r, st, (held[t][r] \ {"SHARED"}) \cup {"EXCLUSIVE"})
      /\ Return(t, "LockUpgrade", r, TRUE)
      /\ Record(call, "LockUpgrade", t, r, "true")
      /\ UNCHANGED crashed

LockUpgradeCall(t, r) ==
  /\ CanCall(t)
  /\ UpgCheck(t, r, TRUE)
  /\ UNCHANGED <<htVars, thread, lruVars, bpVars, txns, iso, tracing>>

LockUpgrade(t, r) == LockUpgradeCall(t, r) /\ UNCHANGED exVars

ResumeUpgrade(t) ==
  /\ ~crashed
  /\ pc[t] = "upgCheck"
  /\ UpgCheck(t, arg[t], FALSE)
  /\ UNCHANGED <<htVars, thread, lruVars, restVars, txns, iso, tracing>>

\* cv_.notify_all() of rid r: every thread asleep on it becomes runnable.
NotifyAll(r) ==
  [u \in TxnIds |->
     IF arg[u] = r /\ pc[u] = "ShareWait" THEN "ShareCheck"
     ELSE IF arg[u] = r /\ pc[u] = "upgWait" THEN "upgCheck"
     ELSE pc[u]]

\* (mutant) the variant left in the comment of line 192.
UnlockStateOnlyRR(t, r) ==
  IF state[t] = "GROWING" /\ iso[t] = "REPEATABLE_READ"
     /\ (r \in excl[t] \/ r \in shared[t])
  THEN "SHRINKING" ELSE state[t]

\* The state Unlock leaves the transaction in (lines 193-199).
UnlockState(t, r) ==
  IF state[t] = "GROWING" /\ (r \in excl[t]
                              \/ (r \in shared[t] /\ iso[t] = "REPEATABLE_READ"))
  THEN "SHRINKING" ELSE state[t]

\* Whether Unlock notifies after erasing the entry (lines 205-217).
UnlockNotifies(mode, q) == mode = "EXCLUSIVE" \/ q # <<>>

UnlockCall(t, r) ==
  /\ CanCall(t)
  /\ LET txn_lockmode == IF r \in shared[t] THEN "SHARED" ELSE "EXCLUSIVE"
         q == queue[r]
     IN IF \A i \in 1..Len(q) : q[i].txn_id # t THEN
          /\ state' = [state EXCEPT ![t] = UnlockState(t, r)]
          /\ pc' = pc
          /\ arg' = arg
          /\ last' = [txn |-> t, op |-> "Unlock", rid |-> r, val |-> FALSE,
                       pre |-> state[t], slept |-> FALSE]
          /\ Record(TRUE, "Unlock", t, r, "false")
          /\ UNCHANGED <<shared, excl, queue, held, crashed>>
        ELSE LET i == CHOOSE j \in 1..Len(q) :
                        q[j].txn_id = t /\ \A k \in 1..(j - 1) : q[k].txn_id # t
                 nq == EraseAt(q, i)
             IN IF q[i].lock_mode # txn_lockmode THEN
                  \* assert(iter->lock_mode_ == txn_lockmode)
                  /\ crashed' = TRUE
                  /\ UNCHANGED <<state, shared, excl, queue, pc, arg, last, held, hist>>
                ELSE
                  /\ state' = [state EXCEPT ![t] = UnlockState(t, r)]
                  /\ queue' = [queue EXCEPT ![r] = nq]
                  /\ shared' = [shared EXCEPT ![t] =
                                  IF txn_lockmode = "SHARED" THEN @ \ {r} ELSE @]
                  /\ excl' = [excl EXCEPT ![t] =
                                  IF txn_lockmode = "EXCLUSIVE" THEN @ \ {r} ELSE @]
                  /\ pc' = IF UnlockNotifies(txn_lockmode, nq) THEN NotifyAll(r) ELSE pc
                  /\ arg' = arg
                  /\ last' = [txn |-> t, op |-> "Unlock", rid |-> r, val |-> TRUE,
                               pre |-> state[t], slept |-> FALSE]
                  /\ held' = [held EXCEPT ![t][r] = {}]
                  /\ Record(TRUE, "Unlock", t, r, "true")
                  /\ UNCHANGED crashed
  /\ UNCHANGED <<htVars, thread, lruVars, bpVars, txns, iso, tracing, upgrading, wounded>>

Unlock(t, r) == UnlockCall(t, r) /\ UNCHANGED exVars

\* std::condition_variable::wait may return without a notification.
SpuriousWake(t) ==
  /\ ~crashed
  /\ pc[t] \in {"ShareWait", "upgWait"}
  /\ pc' = [pc EXCEPT ![t] = IF pc[t] = "ShareWait" THEN "ShareCheck" ELSE "upgCheck"]
  /\ UNCHANGED <<htVars, thread, lruVars, restVars, txns, iso, state, shared, excl, queue, upgrading, arg, crashed,
                 last, held, wounded, tracing, hist>>

\* --------------------------------------------------- extendible hash table
\* Keys are 0..MaxKey and values 1..NumValues; a bucket page has
\* BucketArraySize slots; page ids stay at or below MaxPageId and the calls
\* leave at most MaxPins pins behind (the buffer pool never runs out of frames).
MaxKey == 5
NumValues == 1
BucketArraySize == 1
MaxPageId == 7
MaxPins == 2

MAX_BUCKET_DEPTH == 9
INVALID_PAGE_ID == -1

Keys == 0..MaxKey
Values == 1..NumValues

Pow2(n) == 2 ^ n
\* h & mask for a mask of the form (1 << d) - 1.
BitAnd(h, mask) == h % (mask + 1)
\* i ^ (1 << b)
FlipBit(i, b) == IF (i \div Pow2(b)) % 2 = 1 THEN i - Pow2(b) ELSE i + Pow2(b)

\* The injected hash function, downcast to 32 bits: the model's keys are
\* their own hash values.
Hash(key) == key

\* ---- bucket page
ZeroSlot == [occupied |-> FALSE, readable |-> FALSE, key |-> 0, value |-> 0]
\* A zeroed page read as a bucket (a page NewPage returns, or after Reset).
ZeroPage == [i \in 1..BucketArraySize |-> ZeroSlot]
Reset(b) == ZeroPage

Readable(b) == {i \in DOMAIN b : b[i].readable}
\* A bucket page that never reports itself full.
IsFullNever(b) == FALSE
IsFull(b) == \A i \in DOMAIN b : b[i].readable
IsEmpty(b) == \A i \in DOMAIN b : ~b[i].readable
NumReadable(b) == Cardinality(Readable(b))
GetArrayCopy(b) == SelectSeq(b, LAMBDA s : s.readable)

BucketGetValue(b, key) ==
  LET hit == SelectSeq(b, LAMBDA s : s.readable /\ s.key = key)
  IN [i \in 1..Len(hit) |-> hit[i].value]

BucketInsert(b, key, value) ==
  LET dup == \E i \in Readable(b) : b[i].key = key /\ b[i].value = value
      free == DOMAIN b \ Readable(b)
  IN IF dup \/ free = {} THEN [b |-> b, ok |-> FALSE]
     ELSE LET available == CHOOSE i \in free : \A j \in free : i <= j
          IN [b |-> [b EXCEPT ![available] =
                       [occupied |-> TRUE, readable |-> TRUE,
                        key |-> key, value |-> value]],
              ok |-> TRUE]

RemoveAt(b, i) == [b EXCEPT ![i].readable = FALSE]

BucketRemove(b, key, value) ==
  LET hits == {i \in Readable(b) : b[i].key = key /\ b[i].value = value}
  IN IF hits = {} THEN [b |-> b, ok |-> FALSE]
     ELSE [b |-> RemoveAt(b, CHOOSE i \in hits : \A j \in hits : i <= j),
           ok |-> TRUE]

\* ---- directory page
Size(h) == Pow2(h.global_depth)
GetGlobalDepthMask(h) == Pow2(h.global_depth) - 1
GetLocalDepthMask(h, i) == Pow2(h.local_depths[i]) - 1
GetSplitImageIndex(h, i) ==
  IF h.local_depths[i] = 0 THEN i ELSE FlipBit(i, h.local_depths[i] - 1)
\* Doubling: the new upper half inherits the mappings of the lower half.
IncrGlobalDepth(h) ==
  [h EXCEPT !.global_depth = @ + 1,
            !.local_depths = [i \in 0..(2 * Size(h) - 1) |-> @[i % Size(h)]],
            !.bucket_page_ids = [i \in 0..(2 * Size(h) - 1) |-> @[i % Size(h)]]]
DecrGlobalDepth(h) ==
  [h EXCEPT !.global_depth = @ - 1,
            !.local_depths = [i \in 0..(Size(h) \div 2 - 1) |-> @[i]],
            !.bucket_page_ids = [i \in 0..(Size(h) \div 2 - 1) |-> @[i]]]
CanShrink(h) ==
  /\ h.global_depth > 0
  /\ \A i \in 0..(Size(h) - 1) : h.local_depths[i] < h.global_depth
IncrLocalDepth(h, i) == [h EXCEPT !.local_depths[i] = @ + 1]
DecrLocalDepth(h, i) == [h EXCEPT !.local_depths[i] = @ - 1]

\* ---- buffer pool, as far as the index sees it
\* The element of a one-element set: Only({e(x) : x \in {v}}) is e(v) with v
\* evaluated once.
Only(S) == CHOOSE r \in S : TRUE

PinCount(h, p) == IF p \in DOMAIN h.pin_count THEN h.pin_count[p] ELSE 0
SetPinCount(h, p, n) ==
  [h EXCEPT !.pin_count =
     [q \in (DOMAIN @ \cup {p}) \ (IF n = 0 THEN {p} ELSE {}) |->
        IF q = p THEN n ELSE @[q]]]
\* FetchPage(p): the page is pinned once more.
FetchPage(h0, p) ==
  Only({SetPinCount(h, p, PinCount(h, p) + 1)
 : h \in {h0}})
\* assert(UnpinPage(p, _)): the process aborts when the page is not pinned.
UnpinPage(h0, p) ==
  Only({IF PinCount(h, p) = 0 THEN [h EXCEPT !.aborted = TRUE]
    ELSE SetPinCount(h, p, PinCount(h, p) - 1)
 : h \in {h0}})
\* NewPage: a fresh page id and a zeroed, pinned page.
NewPage(h0) ==
  Only({FetchPage([h EXCEPT !.next_page_id = @ + 1,
                        !.pages = [q \in DOMAIN @ \cup {h.next_page_id} |->
                                     IF q = h.next_page_id THEN ZeroPage ELSE @[q]]],
              h.next_page_id)
 : h \in {h0}})
\* assert(DeletePage(p)): refused, hence an abort, while the page is pinned.
DeletePage(h0, p) ==
  Only({IF PinCount(h, p) > 0 THEN [h EXCEPT !.aborted = TRUE]
    ELSE [h EXCEPT !.deleted = @ \cup {p}]
 : h \in {h0}})
\* The bytes of page p read as a bucket page: a page that was never written
\* reads as zeros, a deleted page as it was written back.
PageData(h, p) == IF p \in DOMAIN h.pages THEN h.pages[p] ELSE ZeroPage

\* ---- the table; page_bound is the largest page id the exploration uses
NoTable ==
  [directory_page_id |-> INVALID_PAGE_ID, global_depth |-> 0,
   local_depths |-> [i \in {0} |-> 0], bucket_page_ids |-> [i \in {0} |-> 0],
   pages |-> [p \in {} |-> ZeroPage], deleted |-> {}, next_page_id |-> 0,
   pin_count |-> [p \in {} |-> 0], aborted |-> FALSE, ret |-> FALSE,
   page_bound |-> MaxPageId]

KeyToDirectoryIndex(h, key) == BitAnd(Hash(key), GetGlobalDepthMask(h))
KeyToPageId(h, key) == h.bucket_page_ids[KeyToDirectoryIndex(h, key)]

\* The first call creates the directory page and one bucket page for slot 0;
\* every call leaves the directory page pinned.
FetchDirectoryPage(h0) ==
  Only({IF h.directory_page_id = INVALID_PAGE_ID THEN
      LET new_page_id_directory == h.next_page_id
          new_page_id_bucket == h.next_page_id + 1
      IN Only({FetchPage(
                  UnpinPage(
                    UnpinPage([h2 EXCEPT !.bucket_page_ids[0] = new_page_id_bucket],
                              new_page_id_directory),
                    new_page_id_bucket),
                  new_page_id_directory)
 : h2 \in {NewPage(FetchPage([h EXCEPT !.next_page_id = @ + 1,
                                          !.directory_page_id = new_page_id_directory],
                                new_page_id_directory))}})
    ELSE FetchPage(h, h.directory_page_id)
 : h \in {h0}})

\* FetchBucketPage(page_id) pins the page; the caller reads it as a bucket.
FetchBucketPage(h, p) == FetchPage(h, p)

GetValue(h0, key) ==
  Only({LET bucket_page_id == KeyToPageId(h1, key)
    IN Only({Only({[h |-> [UnpinPage(UnpinPage(h2, bucket_page_id), h2.directory_page_id)
                     EXCEPT !.ret = (result # <<>>)],
            result |-> result]
 : result \in {BucketGetValue(PageData(h2, bucket_page_id), key)}})
 : h2 \in {FetchBucketPage(h1, bucket_page_id)}})
 : h1 \in {FetchDirectoryPage(h0)}})

\* Slots i, i - diff, ... that are >= diff (the loops of lines 206 and 214).
SlotsDown(i, diff) == {j \in 0..i : j >= diff /\ (i - j) % diff = 0}
\* Slots i, i + diff, ... below size (the loops of lines 210 and 218).
SlotsUp(i, diff, size) == {j \in i..(size - 1) : (j - i) % diff = 0}
SetSlots(h, S0, depth, page) ==
  Only({[h EXCEPT !.local_depths = [j \in DOMAIN @ |-> IF j \in S THEN depth ELSE @[j]],
              !.bucket_page_ids = [j \in DOMAIN @ |-> IF j \in S THEN page ELSE @[j]]]
 : S \in {S0}})

\* Lines 193-202: put the entries of the split bucket back, one by one.
RECURSIVE Rehash(_, _, _, _, _, _)
Rehash(h0, pre_array, i, split_bucket_index, split_bucket_page_id, new_bucket_page_id) ==
  Only({IF i > Len(pre_array) THEN h
    ELSE
      LET target_bucket_index ==
            BitAnd(Hash(pre_array[i].key), GetLocalDepthMask(h, split_bucket_index))
          target_bucket_page_id == h.bucket_page_ids[target_bucket_index]
      IN IF target_bucket_page_id \notin {split_bucket_page_id, new_bucket_page_id}
         THEN [h EXCEPT !.aborted = TRUE]
         ELSE Only({IF ~r.ok THEN [h EXCEPT !.aborted = TRUE]
                     ELSE Rehash([h EXCEPT !.pages[target_bucket_page_id] = r.b],
                                 pre_array, i + 1, split_bucket_index,
                                 split_bucket_page_id, new_bucket_page_id)
 : r \in {BucketInsert(h.pages[target_bucket_page_id],
                                pre_array[i].key, pre_array[i].value)}})
 : h \in {h0}})

\* Lines 205-221: the four propagation loops.
Propagate(h, split_bucket_index, split_bucket_page_id, new_bucket_index, new_bucket_page_id) ==
  LET diff == Pow2(h.local_depths[split_bucket_index])
  IN Only({SetSlots(h1, SlotsDown(new_bucket_index, diff)
                         \cup SlotsUp(new_bucket_index, diff, Size(h1)),
                     h1.local_depths[new_bucket_index], new_bucket_page_id)
 : h1 \in {SetSlots(h, SlotsDown(split_bucket_index, diff)
                      \cup SlotsUp(split_bucket_index, diff, Size(h)),
                   h.local_depths[split_bucket_index], split_bucket_page_id)}})

\* Lines 176-202, once the directory has been doubled if needed and the local
\* depth of the split slot incremented (h3): the split bucket is copied and
\* reset, the new page allocated, the image slot set and the entries put back.
SplitRehash(h3, key, split_bucket_index) ==
  LET split_bucket_page_id == KeyToPageId(h3, key)
      new_bucket_page_id == h3.next_page_id
      new_bucket_index == GetSplitImageIndex(h3, split_bucket_index)
  IN Only({Only({Only({Rehash([h6 EXCEPT !.local_depths[new_bucket_index] = h6.global_depth,
                                  !.bucket_page_ids[new_bucket_index] = new_bucket_page_id],
                       pre_array, 1, split_bucket_index, split_bucket_page_id,
                       new_bucket_page_id)
 : h6 \in {NewPage([h4 EXCEPT !.pages[split_bucket_page_id] = Reset(@)])}})
 : pre_array \in {GetArrayCopy(PageData(h4, split_bucket_page_id))}})
 : h4 \in {FetchBucketPage(h3, split_bucket_page_id)}})

\* Lines 176-230: the table as line 231 finds it.
SplitBucket(h3, key, value, split_bucket_index) ==
  LET dir == h3.directory_page_id
      split_bucket_page_id == KeyToPageId(h3, key)
      new_bucket_page_id == h3.next_page_id
      new_bucket_index == GetSplitImageIndex(h3, split_bucket_index)
  IN Only({IF h8.aborted THEN h8
           ELSE UnpinPage(
                  UnpinPage(
                    UnpinPage(Propagate(h8, split_bucket_index,
                                        split_bucket_page_id, new_bucket_index,
                                        new_bucket_page_id),
                              split_bucket_page_id),
                    new_bucket_page_id),
                  dir)
 : h8 \in {SplitRehash(h3, key, split_bucket_index)}})

\* SplitInsert refusing one level too late (line 163 with > for >=).
DepthExhaustedLate(split_bucket_depth) == split_bucket_depth > MAX_BUCKET_DEPTH

\* SplitInsert never refusing to split (line 163 left out).
DepthExhaustedNever(split_bucket_depth) == FALSE

\* Line 163: the bucket cannot be split any further.
DepthExhausted(split_bucket_depth) == split_bucket_depth >= MAX_BUCKET_DEPTH

\* SplitInsert(transaction, key, value) up to its last line; again says that
\* the call ends in line 231, return Insert(transaction, key, value), which
\* Insert below then carries out.
SplitInsert(h0, key, value) ==
  Only({LET dir == h1.directory_page_id
        split_bucket_index == KeyToDirectoryIndex(h1, key)
        split_bucket_depth == h1.local_depths[split_bucket_index]
    IN IF DepthExhausted(split_bucket_depth)
       THEN [h |-> [UnpinPage(h1, dir) EXCEPT !.ret = FALSE], again |-> FALSE]
       ELSE IF h1.next_page_id > h1.page_bound
       THEN \* a page id beyond the bound: the call is cut off (WithinBounds)
            [h |-> [h1 EXCEPT !.next_page_id = h1.page_bound + 2], again |-> FALSE]
       ELSE Only({Only({[h |-> h10, again |-> ~h10.aborted]
 : h10 \in {SplitBucket(h3, key, value, split_bucket_index)}})
 : h3 \in {IncrLocalDepth(IF split_bucket_depth = h1.global_depth
                                THEN IncrGlobalDepth(h1) ELSE h1,
                                split_bucket_index)}})
 : h1 \in {FetchDirectoryPage(h0)}})

\* Lines 131-152, the part of Insert under the table read lock: the pair goes
\* into a bucket that is not full; full says that line 153 is reached.
InsertTry(h0, key, value) ==
  Only({LET dir == h1.directory_page_id
        bucket_page_id == KeyToPageId(h1, key)
    IN Only({IF ~IsFull(PageData(h2, bucket_page_id))
         THEN Only({[h |-> [UnpinPage(UnpinPage([h2 EXCEPT !.pages[bucket_page_id] = r.b],
                                            bucket_page_id),
                                  dir)
                          EXCEPT !.ret = r.ok],
                   full |-> FALSE]
 : r \in {BucketInsert(PageData(h2, bucket_page_id), key, value)}})
         ELSE Only({[h |-> h3, full |-> ~h3.aborted]
 : h3 \in {UnpinPage(UnpinPage(h2, bucket_page_id), dir)}})
 : h2 \in {FetchBucketPage(h1, bucket_page_id)}})
 : h1 \in {FetchDirectoryPage(h0)}})

\* Lines 131-154: one pass of Insert; a full bucket hands over to SplitInsert.
InsertPass(h0, key, value) ==
  Only({IF s.full THEN SplitInsert(s.h, key, value) ELSE [h |-> s.h, again |-> FALSE]
 : s \in {InsertTry(h0, key, value)}})

RECURSIVE Insert(_, _, _)
\* Insert(transaction, key, value), with the retries SplitInsert asks for.
Insert(h0, key, value) ==
  Only({IF s.again THEN Insert(s.h, key, value) ELSE s.h
 : s \in {InsertPass(h0, key, value)}})

RECURSIVE SplitDepths(_, _, _)
\* The passes of one Insert call (line 231 starts the next one): for each
\* pass, the local depth of the directory slot the key maps to.
SplitDepths(h0, key, value) ==
  Only({Only({<<h.local_depths[KeyToDirectoryIndex(h, key)]>>
                \o (IF s.again THEN SplitDepths(s.h, key, value) ELSE <<>>)
 : s \in {InsertPass(h, key, value)}})
 : h \in {h0}})

RECURSIVE Shrink(_)
\* while (dir_page->CanShrink()) dir_page->DecrGlobalDepth();
Shrink(h0) ==
  Only({IF CanShrink(h) THEN Shrink(DecrGlobalDepth(h)) ELSE h
 : h \in {h0}})

\* Lines 352-375: the bucket was found empty; h3 has bucket_page_id unpinned.
MergeEmpty(h3, bucket_index, bucket_page_id, split_bucket_index) ==
  Only({IF h4.aborted THEN h4
    ELSE
      LET split_bucket_page_id == h4.bucket_page_ids[split_bucket_index]
      IN Only({UnpinPage(
                  Shrink(SetSlots(h5,
                                  {i \in 0..(Size(h5) - 1) :
                                     h5.bucket_page_ids[i]
                                       \in {bucket_page_id, split_bucket_page_id}},
                                  h5.local_depths[split_bucket_index],
                                  split_bucket_page_id)),
                  h5.directory_page_id)
 : h5 \in {DecrLocalDepth(
                DecrLocalDepth(
                  [h4 EXCEPT !.bucket_page_ids[bucket_index] = split_bucket_page_id],
                  bucket_index),
                split_bucket_index)}})
 : h4 \in {DeletePage(h3, bucket_page_id)}})

\* Merge(transaction, bucket_index).  Line 341 fetches the page whose id is the
\* directory slot index; when that is the directory page itself, what its
\* bytes look like as a bucket page depends on the instantiation: emptyDir.
Merge(h0, bucket_index, emptyDir) ==
  Only({LET dir == h1.directory_page_id
        bucket_page_id == h1.bucket_page_ids[bucket_index]
        split_bucket_index == GetSplitImageIndex(h1, bucket_index)
        bucket_local_depth == h1.local_depths[bucket_index]
    IN IF bucket_local_depth = 0 THEN UnpinPage(h1, dir)
       ELSE IF bucket_local_depth # h1.local_depths[split_bucket_index]
       THEN UnpinPage(h1, dir)
       ELSE
         Only({LET empty == IF bucket_index = dir THEN emptyDir
                        ELSE IsEmpty(PageData(h2, bucket_index))
           IN Only({IF h3.aborted THEN h3
                ELSE IF ~empty THEN UnpinPage(h3, dir)
                ELSE MergeEmpty(h3, bucket_index, bucket_page_id, split_bucket_index)
 : h3 \in {UnpinPage(h2, bucket_page_id)}})
 : h2 \in {FetchBucketPage(h1, bucket_index)}})
 : h1 \in {FetchDirectoryPage(h0)}})

\* Lines 238-259, the part of Remove under its table write lock; merge says
\* that lines 260-262 call Merge(transaction, bucket_index).
RemoveEntry(h0, key, value) ==
  Only({LET dir == h1.directory_page_id
        bucket_page_id == KeyToPageId(h1, key)
        bucket_index == KeyToDirectoryIndex(h1, key)
    IN Only({Only({IF ~r.ok
           THEN [h |-> [h2 EXCEPT !.ret = FALSE], merge |-> FALSE,
                 bucket_index |-> bucket_index]
           ELSE Only({[h |-> [h4 EXCEPT !.ret = TRUE],
                       merge |-> IsEmpty(r.b) /\ ~h4.aborted,
                       bucket_index |-> bucket_index]
 : h4 \in {UnpinPage(UnpinPage([h2 EXCEPT !.pages[bucket_page_id] = r.b], dir),
                               bucket_page_id)}})
 : r \in {BucketRemove(PageData(h2, bucket_page_id), key, value)}})
 : h2 \in {FetchBucketPage(h1, bucket_page_id)}})
 : h1 \in {FetchDirectoryPage(h0)}})

Remove(h0, key, value, emptyDir) ==
  Only({IF s.merge THEN [Merge(s.h, s.bucket_index, emptyDir) EXCEPT !.ret = TRUE]
        ELSE s.h
 : s \in {RemoveEntry(h0, key, value)}})

\* ---- the calls; ret is the value the call in progress returns
RECURSIVE TotalPins(_)
\* The pins the calls so far have left behind.
TotalPins(f0) ==
  Only({IF DOMAIN f = {} THEN 0
    ELSE Only({f[p] + TotalPins([q \in DOMAIN f \ {p} |-> f[q]])
 : p \in {CHOOSE q \in DOMAIN f : TRUE}})
 : f \in {f0}})

WithinBounds(h) ==
  /\ h.next_page_id <= h.page_bound + 1
  /\ TotalPins(h.pin_count) <= MaxPins

InsertCall(key, value) ==
  /\ ~table.aborted
  /\ \E h \in {Insert(table, key, value)} :
        /\ WithinBounds(h)
        /\ table' = [h EXCEPT !.ret = FALSE]
        /\ ref' = IF h.ret /\ ~h.aborted THEN ref \cup {<<key, value>>} ELSE ref
  /\ UNCHANGED <<lmVars, thread, lruVars, restVars>>

RemoveCall(key, value) ==
  /\ ~table.aborted
  /\ \E emptyDir \in BOOLEAN :
       \E h \in {Remove(table, key, value, emptyDir)} :
          /\ WithinBounds(h)
          /\ table' = [h EXCEPT !.ret = FALSE]
          /\ ref' = IF h.ret /\ ~h.aborted THEN ref \ {<<key, value>>} ELSE ref
  /\ UNCHANGED <<lmVars, thread, lruVars, restVars>>

GetValueCall(key) ==
  /\ ~table.aborted
  /\ \E g \in {GetValue(table, key)} :
        /\ WithinBounds(g.h)
        /\ table' = [g.h EXCEPT !.ret = FALSE]
  /\ UNCHANGED <<ref, lmVars, thread, lruVars, restVars>>

InitHT ==
  /\ table = NoTable
  /\ ref = {}

\* ---- concurrent calls.  A call holds the table latch (lines 110, 132, 158,
\* 239, 322) for each of its lock sections and the latch of the bucket page it
\* reads or writes, so a lock section is one step; between two lock sections
\* of one call the other threads run.
NumThreads == 2
ConcMaxKey == 3
ConcMaxPageId == 5
Threads == 1..NumThreads
\* Thread t works on its own keys, so that the calls on one key are ordered.
ThreadKeys(t) == {k \in 0..ConcMaxKey : k % NumThreads = t - 1}

NoCallHT == [pc |-> "idle", key |-> 0, value |-> 0, bucket_index |-> 0]
InCall(at, key, value, bucket_index) ==
  [pc |-> at, key |-> key, value |-> value, bucket_index |-> bucket_index]

\* Lines 132-152: the read-locked section of Insert, at the call or at the
\* retry of line 231.
InsertSection(t, key, value) ==
  /\ ~table.aborted
  /\ \E s \in {InsertTry(table, key, value)} :
        /\ WithinBounds(s.h)
        /\ table' = [s.h EXCEPT !.ret = FALSE]
        /\ thread' = [thread EXCEPT ![t] =
                        IF s.full THEN InCall("SplitInsert", key, value, 0)
                        ELSE NoCallHT]
        /\ ref' = IF ~s.full /\ s.h.ret /\ ~s.h.aborted
                  THEN ref \cup {<<key, value>>} ELSE ref
  /\ UNCHANGED <<lmVars, lruVars, restVars>>

InsertBegin(t, key, value) ==
  /\ thread[t].pc = "idle"
  /\ InsertSection(t, key, value)

InsertRetry(t) ==
  /\ thread[t].pc = "Insert"
  /\ InsertSection(t, thread[t].key, thread[t].value)

\* Lines 158-229: the write-locked section of SplitInsert.
SplitInsertSection(t) ==
  /\ thread[t].pc = "SplitInsert"
  /\ ~table.aborted
  /\ \E s \in {SplitInsert(table, thread[t].key, thread[t].value)} :
        /\ WithinBounds(s.h)
        /\ table' = [s.h EXCEPT !.ret = FALSE]
        /\ thread' = [thread EXCEPT ![t] =
                        IF s.again THEN [@ EXCEPT !.pc = "Insert"] ELSE NoCallHT]
  /\ UNCHANGED <<ref, lmVars, lruVars, restVars>>

\* Lines 239-259: the write-locked section of Remove.
RemoveBegin(t, key, value) ==
  /\ thread[t].pc = "idle"
  /\ ~table.aborted
  /\ \E s \in {RemoveEntry(table, key, value)} :
        /\ WithinBounds(s.h)
        /\ table' = [s.h EXCEPT !.ret = FALSE]
        /\ thread' = [thread EXCEPT ![t] =
                        IF s.merge THEN InCall("Merge", key, value, s.bucket_index)
                        ELSE NoCallHT]
        /\ ref' = IF s.h.ret /\ ~s.h.aborted THEN ref \ {<<key, value>>} ELSE ref
  /\ UNCHANGED <<lmVars, lruVars, restVars>>

\* Lines 322-375: Merge(transaction, bucket_index), write-locked, with the
\* bucket_index Remove computed before it released the table latch.  A
\* bucket_index beyond the directory size reads slots the directory page no
\* longer maintains: such runs are not followed.
MergeSection(t) ==
  /\ thread[t].pc = "Merge"
  /\ ~table.aborted
  /\ thread[t].bucket_index < Size(table)
  /\ \E emptyDir \in BOOLEAN :
       \E h \in {Merge(table, thread[t].bucket_index, emptyDir)} :
          /\ WithinBounds(h)
          /\ table' = [h EXCEPT !.ret = FALSE]
          /\ thread' = [thread EXCEPT ![t] = NoCallHT]
  /\ UNCHANGED <<ref, lmVars, lruVars, restVars>>

\* Lines 110-124: GetValue, read-locked.
GetValueBy(t, key) ==
  /\ thread[t].pc = "idle"
  /\ ~table.aborted
  /\ \E g \in {GetValue(table, key)} :
        /\ WithinBounds(g.h)
        /\ table' = [g.h EXCEPT !.ret = FALSE]
  /\ UNCHANGED <<ref, lmVars, thread, lruVars, restVars>>

IdleThreads == thread = [t \in Threads |-> NoCallHT]

\* ------------------------------------------------------------ LRU replacer
\* Frames are 1..NumFrames, a replacer has a capacity of at most LruCapacity.
NumFrames == 5
LruCapacity == 4
MaxLruHist == 7
INT32_MIN == -2147483647 - 1
INT32_MAX == 2147483647

Frames == 1..NumFrames
\* What the caller's variable holds when it passes its address to Victim.
VictimInputs == {INT32_MIN, 0, INT32_MAX}

NoCallLRU == [op |-> "none", frame |-> 0, ok |-> FALSE]
LRUCall(op, frame, ok) == [op |-> op, frame |-> frame, ok |-> ok]
Untraced == [on |-> FALSE, calls |-> <<>>]

\* The sequence without its entries equal to frame_id.
RECURSIVE Without(_, _)
Without(seq, frame_id) == IF seq = <<>> THEN <<>> ELSE IF Head(seq) = frame_id THEN Without(Tail(seq), frame_id) ELSE <<Head(seq)>> \o Without(Tail(seq), frame_id)

\* list_.pop_back()
PopBack(list) == SubSeq(list, 1, Len(list) - 1)

\* list_.front(), standing in for list_.back() in Victim.
VictimPicksFront(list) == list[1]
\* list_.back()
VictimPicks(list) == list[Len(list)]

\* The frames of a sequence.
Range(seq) == {seq[i] : i \in 1..Len(seq)}

\* list_.erase(it) with the iterator of the front node.
EraseFront(list, frame_id) == Tail(list)
\* list_.erase(map_[frame_id]): the node map_ points to for frame_id goes.
Erase(list, frame_id) == Only({SubSeq(list, 1, i - 1) \o SubSeq(list, i + 1, Len(list)) : i \in {CHOOSE j \in 1..Len(list) : list[j] = frame_id}})

\* Unpin without its test for a frame that is already in the replacer.
InReplacerNever(map, frame_id) == FALSE
\* map_.count(frame_id) != 0
InReplacer(map, frame_id) == frame_id \in map

\* Unpin's test for a full replacer, one frame late.
ReplacerFullLate(size, max_size) == size > max_size
\* Unpin's test for a full replacer, one frame early.
ReplacerFullEarly(size, max_size) == size + 1 >= max_size
\* list_.size() >= max_size_
ReplacerFull(size, max_size) == size >= max_size

\* The history after a call: ok is Victim's return value, and for Unpin whether
\* the frame was put into the replacer.
NoteCall(c) ==
  /\ lruLast' = c
  /\ lruHist' = IF lruHist.on /\ Len(lruHist.calls) < MaxLruHist /\ c.op # "Pin"
                THEN [lruHist EXCEPT !.calls = Append(@, c)]
                ELSE Untraced

\* Victim(frame_id_t *frame_id); input is *frame_id at the call and the frame
\* of the recorded call is *frame_id at the return.  The typeid test of line 31
\* compares frame_id_t with itself.
Victim(input) ==
  /\ IF list_ = <<>> \/ INT32_MIN > input \/ input > INT32_MAX
     THEN /\ NoteCall(LRUCall("Victim", input, FALSE))
          /\ UNCHANGED <<list_, map_, arrival>>
     ELSE \E frame_id \in {VictimPicks(list_)} :
            /\ list_' = PopBack(list_)
            /\ map_' = map_ \ {frame_id}
            /\ arrival' = Without(arrival, frame_id)
            /\ NoteCall(LRUCall("Victim", frame_id, TRUE))
  /\ UNCHANGED <<lmVars, htVars, thread, restVars, max_size_>>

Pin(frame_id) ==
  /\ IF ~InReplacer(map_, frame_id)
     THEN UNCHANGED <<list_, map_, arrival>>
     ELSE /\ list_' = Erase(list_, frame_id)
          /\ map_' = map_ \ {frame_id}
          /\ arrival' = Without(arrival, frame_id)
  /\ NoteCall(LRUCall("Pin", frame_id, TRUE))
  /\ UNCHANGED <<lmVars, htVars, thread, restVars, max_size_>>

Unpin(frame_id) ==
  /\ IF InReplacer(map_, frame_id) \/ ReplacerFull(Len(list_), max_size_)
     THEN /\ UNCHANGED <<list_, map_, arrival>>
          /\ NoteCall(LRUCall("Unpin", frame_id, FALSE))
     ELSE /\ list_' = <<frame_id>> \o list_
          /\ map_' = map_ \cup {frame_id}
          /\ arrival' = Append(arrival, frame_id)
          /\ NoteCall(LRUCall("Unpin", frame_id, TRUE))
  /\ UNCHANGED <<lmVars, htVars, thread, restVars, max_size_>>

\* Size(): the call returns list_.size(); frame holds the returned number.
ReplacerSize ==
  /\ lruLast' = LRUCall("Size", Len(list_), TRUE)
  /\ UNCHANGED <<lmVars, htVars, thread, restVars, list_, map_, max_size_, arrival, lruHist>>

\* LRUReplacer(num_pages)
InitLRU(num_pages, trace) ==
  /\ list_ = <<>>
  /\ map_ = {}
  /\ max_size_ = num_pages
  /\ arrival = <<>>
  /\ lruLast = NoCallLRU
  /\ lruHist = [on |-> trace, calls |-> <<>>]

\* No replacer in use.
IdleLRU == InitLRU(0, FALSE)

\* ------------------------------------------------- buffer pool instance
\* BufferPoolManagerInstance is described in section 4.2 of the specification;
\* its replacer is the LRU replacer above, with the capacity pool_size.
\* An instance is a record:
\*   frames        frame -> [page_id, pin_count, is_dirty]
\*   page_table    resident page id -> frame
\*   free_list     sequence of free frames
\*   replacer      list_ of its LRU replacer
\*   next_page_id  the allocator's next page id
NumInstances == 2
PoolSize == 1
MaxBpPageId == 3
MaxBpPins == 2
MaxNewPages == 3

Instances == 0..(NumInstances - 1)
PoolFrames == 0..(PoolSize - 1)
\* The page ids the callers pass; FetchPage is called with valid ones.
BpPageIds == {INVALID_PAGE_ID} \cup 0..MaxBpPageId
ValidPageIds == 0..MaxBpPageId

FreeFrame == [page_id |-> INVALID_PAGE_ID, pin_count |-> 0, is_dirty |-> FALSE]

\* BufferPoolManagerInstance(pool_size, num_instances, instance_index, ...)
NewInstance(pool_size, instance_index) ==
  [frames |-> [f \in 0..(pool_size - 1) |-> FreeFrame],
   page_table |-> <<>>,
   free_list |-> [i \in 1..pool_size |-> i - 1],
   replacer |-> <<>>,
   next_page_id |-> instance_index]

Resident(bp, page_id) == page_id \in DOMAIN bp.page_table

\* The page table with the mapping of page_id dropped.
DropMapping(page_table, page_id) == [p \in (DOMAIN page_table) \ {page_id} |-> page_table[p]]
\* The page table with page_id mapped to frame.
AddMapping(page_table, page_id, frame) == [p \in (DOMAIN page_table) \cup {page_id} |-> IF p = page_id THEN frame ELSE page_table[p]]

\* replacer->Unpin(frame) on a replacer of capacity max_size
ReplacerUnpin(list, max_size, frame) == IF InReplacer(Range(list), frame) \/ ReplacerFull(Len(list), max_size) THEN list ELSE <<frame>> \o list
\* replacer->Pin(frame)
ReplacerPin(list, frame) == IF InReplacer(Range(list), frame) THEN Erase(list, frame) ELSE list

\* Acquire a victim frame: the free list first, otherwise Victim from the
\* replacer; frame -1 when there is none.
AcquireVictim(bp) ==
  IF bp.free_list # <<>>
  THEN [bp |-> [bp EXCEPT !.free_list = Tail(@)], frame |-> Head(bp.free_list)]
  ELSE IF bp.replacer # <<>>
       THEN [bp |-> [bp EXCEPT !.replacer = PopBack(@)], frame |-> VictimPicks(bp.replacer)]
       ELSE [bp |-> bp, frame |-> -1]

\* The frame receives page_id: a dirty old page is written back, the old
\* mapping is removed, the new one installed, pin_count = 1, is_dirty = false.
InstallPage(bp, frame, page_id) ==
  [bp EXCEPT !.page_table = AddMapping([p \in {q \in DOMAIN @ : @[q] # frame} |-> @[p]], page_id, frame),
             !.frames[frame] = [page_id |-> page_id, pin_count |-> 1, is_dirty |-> FALSE]]

\* FetchPage(page_id): ret is the page id of the returned frame, or
\* INVALID_PAGE_ID with ok = FALSE for a null pointer.
InstanceFetchPage(bp, page_id) ==
  IF Resident(bp, page_id)
  THEN [bp |-> [bp EXCEPT !.frames[bp.page_table[page_id]].pin_count = @ + 1,
                          !.replacer = ReplacerPin(@, bp.page_table[page_id])],
        ok |-> TRUE, ret |-> page_id]
  ELSE Only({IF v.frame = -1
             THEN [bp |-> bp, ok |-> FALSE, ret |-> INVALID_PAGE_ID]
             ELSE [bp |-> InstallPage(v.bp, v.frame, page_id), ok |-> TRUE, ret |-> page_id]
             : v \in {AcquireVictim(bp)}})

\* UnpinPage(page_id, is_dirty)
InstanceUnpinPage(bp, page_id, is_dirty) ==
  IF ~Resident(bp, page_id)
  THEN [bp |-> bp, ok |-> FALSE, ret |-> page_id]
  ELSE Only({IF bp.frames[f].pin_count = 0
             THEN [bp |-> bp, ok |-> FALSE, ret |-> page_id]
             ELSE [bp |-> [bp EXCEPT !.frames[f].pin_count = @ - 1,
                                     !.frames[f].is_dirty = @ \/ is_dirty,
                                     !.replacer = IF bp.frames[f].pin_count = 1 THEN ReplacerUnpin(@, Cardinality(DOMAIN bp.frames), f) ELSE @],
                   ok |-> TRUE, ret |-> page_id]
             : f \in {bp.page_table[page_id]}})

\* NewPage(&page_id): a fresh page id of the shard is allocated, then a
\* victim is acquired as in FetchPage.
InstanceNewPage(bp, num_instances) ==
  Only({IF v.frame = -1
        THEN [bp |-> v.bp, ok |-> FALSE, ret |-> INVALID_PAGE_ID]
        ELSE [bp |-> InstallPage(v.bp, v.frame, bp.next_page_id), ok |-> TRUE, ret |-> bp.next_page_id]
        : v \in {AcquireVictim([bp EXCEPT !.next_page_id = @ + num_instances])}})

\* DeletePage(page_id)
InstanceDeletePage(bp, page_id) ==
  IF ~Resident(bp, page_id)
  THEN [bp |-> bp, ok |-> TRUE, ret |-> page_id]
  ELSE Only({IF bp.frames[f].pin_count > 0
             THEN [bp |-> bp, ok |-> FALSE, ret |-> page_id]
             ELSE [bp |-> [bp EXCEPT !.page_table = DropMapping(@, page_id),
                                     !.frames[f] = FreeFrame,
                                     !.free_list = Append(@, f)],
                   ok |-> TRUE, ret |-> page_id]
             : f \in {bp.page_table[page_id]}})

\* FlushPage(page_id)
InstanceFlushPage(bp, page_id) ==
  IF ~Resident(bp, page_id)
  THEN [bp |-> bp, ok |-> FALSE, ret |-> page_id]
  ELSE [bp |-> [bp EXCEPT !.frames[bp.page_table[page_id]].is_dirty = FALSE], ok |-> TRUE, ret |-> page_id]

\* ------------------------------------------- parallel buffer pool manager
\* 2^64 modulo n, for n < 2^15.
TwoTo64Mod(n) == ((((65536 % n) * (65536 % n)) % n) * (((65536 % n) * (65536 % n)) % n)) % n

\* The instance of page_id + 1.
RouteNext(page_id, num_instances) == (page_id + 1) % num_instances
\* page_id % num_instances_: page_id_t is int32 and num_instances_ is size_t,
\* so page_id is converted to a 64-bit unsigned number first.
Route(page_id, num_instances) == IF page_id >= 0 THEN page_id % num_instances ELSE (TwoTo64Mod(num_instances) + (page_id % num_instances)) % num_instances

NoCallBP == [op |-> "none", page_id |-> INVALID_PAGE_ID, served |-> <<>>, ok |-> FALSE, ret |-> INVALID_PAGE_ID, start |-> 0]
BPCall(op, page_id, served, ok, ret, start) == [op |-> op, page_id |-> page_id, served |-> served, ok |-> ok, ret |-> ret, start |-> start]

\* One routed call: r is the result of the instance's operation.
Routed(op, page_id, idx, r) ==
  /\ buffer_pools_' = [buffer_pools_ EXCEPT ![idx] = r.bp]
  /\ bpLast' = BPCall(op, page_id, <<idx>>, r.ok, r.ret, start_index_)
  /\ UNCHANGED <<lmVars, htVars, thread, lruVars, exVars, start_index_>>

\* A page is pinned at most MaxBpPins times.
FetchPgImp(page_id) ==
  \E idx \in {Route(page_id, NumInstances)} :
    /\ Resident(buffer_pools_[idx], page_id) => buffer_pools_[idx].frames[buffer_pools_[idx].page_table[page_id]].pin_count < MaxBpPins
    /\ Routed("FetchPage", page_id, idx, InstanceFetchPage(buffer_pools_[idx], page_id))

UnpinPgImp(page_id, is_dirty) ==
  /\ page_id \in BpPageIds
  /\ \E idx \in {Route(page_id, NumInstances)} : Routed("UnpinPage", page_id, idx, InstanceUnpinPage(buffer_pools_[idx], page_id, is_dirty))

FlushPgImp(page_id) ==
  /\ page_id \in BpPageIds
  /\ \E idx \in {Route(page_id, NumInstances)} : Routed("FlushPage", page_id, idx, InstanceFlushPage(buffer_pools_[idx], page_id))

DeletePgImp(page_id) ==
  /\ page_id \in BpPageIds
  /\ \E idx \in {Route(page_id, NumInstances)} : Routed("DeletePage", page_id, idx, InstanceDeletePage(buffer_pools_[idx], page_id))

\* NewPgImp starting at instance 0 every time.
CursorZero(start_index, num_instances) == 0
\* start_index_ % num_instances_
Cursor(start_index, num_instances) == start_index % num_instances

\* The loop of NewPgImp from instance idx on: the instances called so far are
\* served.
RECURSIVE NewPgLoop(_, _, _, _)
NewPgLoop(pools, idx, start, served) ==
  Only({IF r.ok
        THEN [pools |-> [pools EXCEPT ![idx] = r.bp], served |-> Append(served, idx), ok |-> TRUE, ret |-> r.ret]
        ELSE IF (idx + 1) % NumInstances = start
             THEN [pools |-> [pools EXCEPT ![idx] = r.bp], served |-> Append(served, idx), ok |-> FALSE, ret |-> INVALID_PAGE_ID]
             ELSE NewPgLoop([pools EXCEPT ![idx] = r.bp], (idx + 1) % NumInstances, start, Append(served, idx))
        : r \in {InstanceNewPage(pools[idx], NumInstances)}})

NewPgImp ==
  /\ start_index_ < MaxNewPages
  /\ \E start \in {Cursor(start_index_, NumInstances)} :
       \E r \in {NewPgLoop(buffer_pools_, start, start, <<>>)} :
         /\ start_index_' = start_index_ + 1
         /\ buffer_pools_' = r.pools
         /\ bpLast' = BPCall("NewPage", INVALID_PAGE_ID, r.served, r.ok, r.ret, start_index_)
  /\ UNCHANGED <<lmVars, htVars, thread, lruVars, exVars>>

\* ParallelBufferPoolManager(num_instances, pool_size, ...)
InitBPM(num_instances, pool_size) ==
  /\ buffer_pools_ = [i \in 0..(num_instances - 1) |-> NewInstance(pool_size, i)]
  /\ start_index_ = 0
  /\ bpLast = NoCallBP

\* No buffer pool in use.
IdleBPM == InitBPM(0, 0)

\* ------------------------------------------------------------ executors
\* A transaction runs one statement at a time: a sequential scan, or a Delete
\* or an Update whose child is a sequential scan of the same table.  The
\* table's rows are the rids 1..NumRids, in the order of the table iterator;
\* the executor context holds a lock manager.  Every lock manager call of an
\* executor is one step; the executor goes on when the call has returned.
Statements == {"SeqScan", "Delete", "Update"}

NoStmt == [stmt |-> "none", at |-> "idle", iter |-> 1, rid |-> NoRid, pre |-> FALSE, took |-> {}, lockret |-> "none"]
NoExecEvent == [txn |-> 0, stmt |-> "none", ev |-> "none", rid |-> NoRid, locked |-> FALSE, after |-> FALSE, pre |-> FALSE, lockret |-> "none", lost |-> {}]
ExecEvent(t, ev, rid, locked, pre, lockret, lost) == [txn |-> t, stmt |-> exec[t].stmt, ev |-> ev, rid |-> rid, locked |-> locked, after |-> locked, pre |-> pre, lockret |-> lockret, lost |-> lost]

\* table_heap_->End()
EndOfTable == NumRids + 1

\* What an executor knows of the call it just made: its return value when the
\* call returned at once, "waited" when it blocked.
CallResult(t) == IF pc'[t] # "idle" THEN "waited" ELSE IF last'.val THEN "true" ELSE "false"

\* IsSharedLocked(rid) || IsExclusiveLocked(rid)
Holds(t, rid) == (rid \in shared[t]) \/ (rid \in excl[t])

NoLockCall == UNCHANGED <<lmVars, htVars, thread, lruVars, bpVars>>

\* The application starts a statement in a transaction that is not aborted.
BeginStmt(t, stmt) ==
  /\ CanCall(t)
  /\ exec[t].stmt = "none"
  /\ state[t] # "ABORTED"
  /\ exec' = [exec EXCEPT ![t] = [NoStmt EXCEPT !.stmt = stmt, !.at = "scan"]]
  /\ execLast' = [NoExecEvent EXCEPT !.txn = t, !.stmt = stmt, !.ev = "begin"]
  /\ NoLockCall
  /\ UNCHANGED join

\* SeqScanExecutor::Next, lines 36-42: whether LockShared is called.
ScanLocks(t, rid) == iso[t] # "READ_UNCOMMITTED" /\ rid \notin excl[t] /\ rid \notin shared[t]

\* SeqScanExecutor::Next up to the LockShared call (lines 25-42); at the end
\* of the table the scan, and with it the statement, is over.
ScanNext(t) ==
  /\ CanCall(t)
  /\ exec[t].at = "scan"
  /\ UNCHANGED join
  /\ IF exec[t].iter = EndOfTable
     THEN /\ exec' = [exec EXCEPT ![t] = NoStmt]
          /\ execLast' = ExecEvent(t, "end", NoRid, FALSE, FALSE, "none", exec[t].took \ (shared[t] \cup excl[t]))
          /\ NoLockCall
     ELSE \E rid \in {exec[t].iter} :
            \E pre \in {Holds(t, rid)} :
              IF ScanLocks(t, rid)
              THEN /\ LockSharedCall(t, rid)
                   /\ exec' = [exec EXCEPT ![t].at = "read", ![t].rid = rid, ![t].pre = pre, ![t].lockret = CallResult(t)]
                   /\ execLast' = ExecEvent(t, "LockShared", rid, FALSE, pre, CallResult(t), {})
              ELSE /\ NoLockCall
                   /\ exec' = [exec EXCEPT ![t].at = "read", ![t].rid = rid, ![t].pre = pre, ![t].lockret = "none"]
                   /\ execLast' = ExecEvent(t, "nolock", rid, FALSE, pre, "none", {})

\* SeqScanExecutor::Next, lines 51-53: whether Unlock is called.
ScanUnlocks(t) == iso[t] = "READ_COMMITTED"

\* SeqScanExecutor::Next from the evaluation of the row on (lines 44-65):
\* the row is read, unlocked under READ_COMMITTED, the iterator advances and
\* the predicate decides whether the row is emitted.
ScanRead(t, pass) ==
  /\ CanCall(t)
  /\ exec[t].at = "read"
  /\ UNCHANGED join
  /\ \E rid \in {exec[t].rid} :
       /\ IF ScanUnlocks(t) THEN UnlockCall(t, rid) ELSE NoLockCall
       /\ execLast' = [ExecEvent(t, "read", rid, Holds(t, rid), exec[t].pre, exec[t].lockret, {})
                         EXCEPT !.after = (rid \in shared'[t]) \/ (rid \in excl'[t])]
       /\ exec' = [exec EXCEPT ![t].at = IF pass /\ exec[t].stmt # "SeqScan" THEN "lock" ELSE "scan",
                                ![t].iter = @ + 1,
                                ![t].took = IF rid \in shared[t] /\ ~exec[t].pre THEN @ \cup {rid} ELSE @]

\* DeleteExecutor::Next lines 45-51, UpdateExecutor::Next lines 42-48: the
\* lock call for the row the child returned.
WriterLock(t) ==
  /\ CanCall(t)
  /\ exec[t].at = "lock"
  /\ UNCHANGED join
  /\ \E rid \in {exec[t].rid} :
       IF rid \in shared[t]
       THEN /\ LockUpgradeCall(t, rid)
            /\ exec' = [exec EXCEPT ![t].at = "write", ![t].lockret = CallResult(t)]
            /\ execLast' = ExecEvent(t, "LockUpgrade", rid, FALSE, FALSE, CallResult(t), {})
       ELSE IF rid \notin excl[t]
            THEN /\ LockExclusiveCall(t, rid)
                 /\ exec' = [exec EXCEPT ![t].at = "write", ![t].lockret = CallResult(t)]
                 /\ execLast' = ExecEvent(t, "LockExclusive", rid, FALSE, FALSE, CallResult(t), {})
            ELSE /\ NoLockCall
                 /\ exec' = [exec EXCEPT ![t].at = "write", ![t].lockret = "none"]
                 /\ execLast' = ExecEvent(t, "nolock", rid, TRUE, FALSE, "none", {})

\* DeleteExecutor::Next lines 53-69, UpdateExecutor::Next lines 50-71: the
\* row and the indexes are modified whatever the lock call returned (its
\* result is not looked at), the row is unlocked under
\* READ_COMMITTED, and the loop asks the child for the next row.
WriterWrite(t) ==
  /\ CanCall(t)
  /\ exec[t].at = "write"
  /\ UNCHANGED join
  /\ \E rid \in {exec[t].rid} :
       /\ IF iso[t] = "READ_COMMITTED" THEN UnlockCall(t, rid) ELSE NoLockCall
       /\ execLast' = ExecEvent(t, "write", rid, rid \in excl[t], FALSE, exec[t].lockret, {})
       /\ exec' = [exec EXCEPT ![t].at = "scan"]

\* ---- hash join
\* The children return tuples [key, val], key being the value of the join key
\* expression; an output tuple is the pair of a left and a right tuple.
NumJoinKeys == 2
NumJoinVals == 2
MaxLeft == 3
MaxRight == 2

JoinTuples == [key : 1..NumJoinKeys, val : 1..NumJoinVals]
SeqsUpTo(S, n) == UNION {[1..k -> S] : k \in 0..n}

\* (mutant) map_[dis_key] = std::vector{left_tuple} for every left tuple.
BucketReplace(map, tuple) == [k \in (DOMAIN map) \cup {tuple.key} |-> IF k = tuple.key THEN <<tuple>> ELSE map[k]]
\* Lines 37-41: the left tuple is appended to the vector of its key.
BucketAdd(map, tuple) == [k \in (DOMAIN map) \cup {tuple.key} |-> IF k = tuple.key THEN (IF k \in DOMAIN map THEN Append(map[k], tuple) ELSE <<tuple>>) ELSE map[k]]

\* Lines 34-42: the left child is drained into map_.
RECURSIVE Build(_, _)
Build(map, left) == IF left = <<>> THEN map ELSE Build(BucketAdd(map, Head(left)), Tail(left))

\* Lines 49-58: the output tuples of one right tuple.
ProbeOne(map, right_tuple) == IF right_tuple.key \in DOMAIN map THEN [i \in 1..Len(map[right_tuple.key]) |-> [l |-> map[right_tuple.key][i], r |-> right_tuple]] ELSE <<>>

\* Lines 46-59: the right child is drained and result_ filled.
RECURSIVE Probe(_, _, _)
Probe(map, right, result) == IF right = <<>> THEN result ELSE Probe(map, Tail(right), result \o ProbeOne(map, Head(right)))

NoJoin == [at |-> "none", left |-> <<>>, right |-> <<>>, map_ |-> <<>>, result_ |-> <<>>, now_id_ |-> 0, out |-> <<>>]

NoJoinCall == UNCHANGED <<lmVars, htVars, thread, lruVars, bpVars, exec, execLast>>

\* HashJoinExecutor::Init, called once
JoinInit ==
  /\ join.at = "new"
  /\ \E map \in {Build(join.map_, join.left)} :
       join' = [join EXCEPT !.at = "ready", !.map_ = map, !.result_ = Probe(map, join.right, join.result_)]
  /\ NoJoinCall

\* HashJoinExecutor::Next: out is the sequence of tuples returned so far.
JoinNext ==
  /\ join.at = "ready"
  /\ IF join.now_id_ < Len(join.result_)
     THEN join' = [join EXCEPT !.out = Append(@, join.result_[join.now_id_ + 1]), !.now_id_ = @ + 1]
     ELSE join' = [join EXCEPT !.at = "done"]
  /\ NoJoinCall

\* No executor at work.
IdleExec ==
  /\ exec = [t \in TxnIds |-> NoStmt]
  /\ execLast = NoExecEvent
  /\ join = NoJoin

IdleRest == IdleBPM /\ IdleExec

\* A lock manager with no lock, the transactions ids created.
InitLMOf(ids, trace) ==
  /\ txns = ids
  /\ iso \in [TxnIds -> IsolationLevels]
  /\ \A t \in TxnIds \ ids : iso[t] = "REPEATABLE_READ"
  /\ state = [t \in TxnIds |-> "GROWING"]
  /\ shared = [t \in TxnIds |-> {}]
  /\ excl = [t \in TxnIds |-> {}]
  /\ queue = [r \in Rids |-> <<>>]
  /\ upgrading = [r \in Rids |-> FALSE]
  /\ pc = [t \in TxnIds |-> "idle"]
  /\ arg = [t \in TxnIds |-> NoRid]
  /\ crashed = FALSE
  /\ last = NoCall
  /\ held = [t \in TxnIds |-> [r \in Rids |-> {}]]
  /\ wounded = {}
  /\ tracing = trace
  /\ hist = <<>>
  /\ InitHT
  /\ IdleThreads
  /\ IdleLRU
  /\ IdleRest

InitLM(trace) == InitLMOf(PlainTxnIds, trace)

NextLM ==
  \/ \E t \in TxnIds, r \in Rids : LockShared(t, r)
  \/ \E t \in TxnIds, r \in Rids : LockExclusive(t, r)
  \/ \E t \in TxnIds, r \in Rids : LockUpgrade(t, r)
  \/ \E t \in TxnIds, r \in Rids : Unlock(t, r)
  \/ \E t \in TxnIds : ResumeShared(t)
  \/ \E t \in TxnIds : ResumeUpgrade(t)
  \/ \E t \in TxnIds : SpuriousWake(t)

\* The lock manager under arbitrary calls of concurrent transactions.
SpecLM == InitLM(FALSE) /\ [][NextLM]_vars

\* The same, recording the first MaxHist calls and stopping after them.
SpecLMTrace == InitLM(TRUE) /\ [][NextLM]_vars

\* The lock manager with the oldest transaction and transaction 9.
NineTxnIds == {0, SpecialTxnId}
InitLMNine == InitLMOf(NineTxnIds, FALSE)
SpecLMNine == InitLMNine /\ [][NextLM]_vars

\* The lock manager at rest, for the specifications that do not use it.
IdleLM ==
  /\ txns = TxnIds
  /\ iso = [t \in TxnIds |-> "REPEATABLE_READ"]
  /\ state = [t \in TxnIds |-> "GROWING"]
  /\ shared = [t \in TxnIds |-> {}]
  /\ excl = [t \in TxnIds |-> {}]
  /\ queue = [r \in Rids |-> <<>>]
  /\ upgrading = [r \in Rids |-> FALSE]
  /\ pc = [t \in TxnIds |-> "idle"]
  /\ arg = [t \in TxnIds |-> NoRid]
  /\ crashed = FALSE
  /\ last = NoCall
  /\ held = [t \in TxnIds |-> [r \in Rids |-> {}]]
  /\ wounded = {}
  /\ tracing = FALSE
  /\ hist = <<>>

NextHT ==
  \/ \E key \in Keys, value \in Values : InsertCall(key, value)
  \/ \E key \in Keys, value \in Values : RemoveCall(key, value)
  \/ \E key \in Keys : GetValueCall(key)

\* The hash index under arbitrary calls of one thread.
InitIndex == IdleLM /\ InitHT /\ IdleThreads /\ IdleLRU /\ IdleRest
SpecHT == InitIndex /\ [][NextHT]_vars

\* The same calls on keys whose hash values agree in their low bits, so that
\* buckets are split up to MAX_BUCKET_DEPTH.
DeepKeys == {0, 1, 256, 512}
DeepMaxPageId == 12

InitDeep ==
  /\ IdleLM
  /\ table = [NoTable EXCEPT !.page_bound = DeepMaxPageId]
  /\ ref = {}
  /\ IdleThreads
  /\ IdleLRU
  /\ IdleRest

NextDeep ==
  \/ \E key \in DeepKeys, value \in Values : InsertCall(key, value)
  \/ \E key \in DeepKeys, value \in Values : RemoveCall(key, value)
  \/ \E key \in DeepKeys : GetValueCall(key)

SpecHTDeep == InitDeep /\ [][NextDeep]_vars

\* The hash index under calls of NumThreads threads.
InitConc ==
  /\ IdleLM
  /\ table = [NoTable EXCEPT !.page_bound = ConcMaxPageId]
  /\ ref = {}
  /\ IdleThreads
  /\ IdleLRU
  /\ IdleRest

NextConc ==
  \/ \E t \in Threads : \E key \in ThreadKeys(t), value \in Values : InsertBegin(t, key, value)
  \/ \E t \in Threads : InsertRetry(t)
  \/ \E t \in Threads : SplitInsertSection(t)
  \/ \E t \in Threads : \E key \in ThreadKeys(t), value \in Values : RemoveBegin(t, key, value)
  \/ \E t \in Threads : MergeSection(t)
  \/ \E t \in Threads : \E key \in ThreadKeys(t) : GetValueBy(t, key)

SpecHTConc == InitConc /\ [][NextConc]_vars

\* The LRU replacer under arbitrary calls.
InitReplacer(capacities, trace) ==
  /\ IdleLM
  /\ InitHT
  /\ IdleThreads
  /\ \E num_pages \in capacities : InitLRU(num_pages, trace)
  /\ IdleRest

NextLRU ==
  \/ \E input \in VictimInputs : Victim(input)
  \/ \E frame_id \in Frames : Pin(frame_id)
  \/ \E frame_id \in Frames : Unpin(frame_id)
  \/ ReplacerSize

InitLRUPlain == InitReplacer(0..LruCapacity, FALSE)
SpecLRU == InitLRUPlain /\ [][NextLRU]_vars

\* A replacer of capacity LruCapacity, recording the calls.
InitLRUTrace == InitReplacer({LruCapacity}, TRUE)
SpecLRUTrace == InitLRUTrace /\ [][NextLRU]_vars

\* The parallel buffer pool manager under calls made one after another.
InitPool ==
  /\ IdleLM
  /\ InitHT
  /\ IdleThreads
  /\ IdleLRU
  /\ InitBPM(NumInstances, PoolSize)
  /\ IdleExec

NextBPM ==
  \/ \E page_id \in ValidPageIds : FetchPgImp(page_id)
  \/ \E page_id \in BpPageIds : \E is_dirty \in BOOLEAN : UnpinPgImp(page_id, is_dirty)
  \/ \E page_id \in BpPageIds : FlushPgImp(page_id)
  \/ \E page_id \in BpPageIds : DeletePgImp(page_id)
  \/ NewPgImp

SpecBPM == InitPool /\ [][NextBPM]_vars

\* Transactions run statements and call the lock manager between them.
MaxExecTxn == 1
ExecTxns == 0..MaxExecTxn

InitExec ==
  /\ txns = ExecTxns
  /\ iso \in [TxnIds -> IsolationLevels]
  /\ \A t \in TxnIds \ ExecTxns : iso[t] = "REPEATABLE_READ"
  /\ state = [t \in TxnIds |-> "GROWING"]
  /\ shared = [t \in TxnIds |-> {}]
  /\ excl = [t \in TxnIds |-> {}]
  /\ queue = [r \in Rids |-> <<>>]
  /\ upgrading = [r \in Rids |-> FALSE]
  /\ pc = [t \in TxnIds |-> "idle"]
  /\ arg = [t \in TxnIds |-> NoRid]
  /\ crashed = FALSE
  /\ last = NoCall
  /\ held = [t \in TxnIds |-> [r \in Rids |-> {}]]
  /\ wounded = {}
  /\ tracing = FALSE
  /\ hist = <<>>
  /\ InitHT
  /\ IdleThreads
  /\ IdleLRU
  /\ IdleRest

NextExec ==
  \/ \E t \in TxnIds, stmt \in Statements : BeginStmt(t, stmt)
  \/ \E t \in TxnIds : ScanNext(t)
  \/ \E t \in TxnIds, pass \in BOOLEAN : ScanRead(t, pass)
  \/ \E t \in TxnIds : WriterLock(t)
  \/ \E t \in TxnIds : WriterWrite(t)
  \/ \E t \in TxnIds, r \in Rids : exec[t].stmt = "none" /\ LockShared(t, r)
  \/ \E t \in TxnIds, r \in Rids : exec[t].stmt = "none" /\ LockExclusive(t, r)
  \/ \E t \in TxnIds, r \in Rids : exec[t].stmt = "none" /\ Unlock(t, r)
  \/ \E t \in TxnIds : ResumeShared(t)
  \/ \E t \in TxnIds : ResumeUpgrade(t)
  \/ \E t \in TxnIds : SpuriousWake(t)

SpecExec == InitExec /\ [][NextExec]_vars

\* A hash join over every pair of short child outputs.
InitJoin ==
  /\ IdleLM
  /\ InitHT
  /\ IdleThreads
  /\ IdleLRU
  /\ IdleBPM
  /\ exec = [t \in TxnIds |-> NoStmt]
  /\ execLast = NoExecEvent
  /\ \E left \in SeqsUpTo(JoinTuples, MaxLeft), right \in SeqsUpTo(JoinTuples, MaxRight) : join = [NoJoin EXCEPT !.at = "new", !.left = left, !.right = right]

NextJoin ==
  \/ JoinInit
  \/ JoinNext

SpecJoin == InitJoin /\ [][NextJoin]_vars


\* ------------------------------------------------- claims: lock manager

LockCallBy(t, r) == LockShared(t, r) \/ LockExclusive(t, r) \/ LockUpgrade(t, r)

\* C1: no rid has an EXCLUSIVE lock granted to one transaction while any lock
\* is granted to a different transaction on the same rid (a lock is granted
\* from the return of true until the holder unlocks it or is wounded on it).
C1_ExclusiveExcludesOthers ==
  \A r \in Rids : \A t, u \in TxnIds :
    (t # u /\ "EXCLUSIVE" \in held[t][r]) => held[u][r] = {}

\* C2: a transaction in SHRINKING never acquires a lock: every lock call it
\* makes returns false, sets it ABORTED, and changes neither its lock sets nor
\* any queue; and no step at all gives a SHRINKING transaction a lock.
C2_ShrinkingNeverLocks ==
  [][\A t \in TxnIds :
       state[t] = "SHRINKING" =>
         /\ state'[t] \in {"SHRINKING", "ABORTED"}
         /\ shared'[t] \subseteq shared[t]
         /\ excl'[t] \subseteq excl[t]
         /\ \A r \in Rids : held'[t][r] \subseteq held[t][r]
         /\ \A r \in Rids :
              LockCallBy(t, r) =>
                /\ last'.txn = t /\ last'.rid = r /\ last'.op \in LockOps
                /\ last'.val = FALSE
                /\ state'[t] = "ABORTED"
                /\ shared' = shared /\ excl' = excl /\ queue' = queue
                /\ held' = held]_vars

\* A SHRINKING transaction called LockUpgrade and was refused.
C2_Witness ==
  /\ last.op = "LockUpgrade" /\ last.pre = "SHRINKING" /\ last.val = FALSE
  /\ state[last.txn] = "ABORTED"


\* C3: a blocked transaction waits behind a transaction with a strictly
\* smaller id, so that someone is left to wake it: whenever a transaction
\* sleeps in LockShared, or in LockUpgrade while it has its entry in the
\* queue, the queue of that rid holds an entry of an older transaction.
C3_BlockedWaitsBehindOlder ==
  \A t \in TxnIds :
    (pc[t] = "ShareWait" \/ (pc[t] = "upgWait" /\ t \in QueueTxns(queue[arg[t]])))
      => \E i \in 1..Len(queue[arg[t]]) : queue[arg[t]][i].txn_id < t

\* A call as the scenario specification records it.
Call(op, t, r, out) == [op |-> op, txn |-> t, rid |-> r, out |-> out]

\* C4: T1 holds EXCLUSIVE on R, T2 blocks in LockShared(R), T0 calls
\* LockExclusive(R): T1 is ABORTED and has lost its lock, T0 holds EXCLUSIVE;
\* and once T0 has unlocked R, the LockShared call of T2 returns true with T2
\* holding SHARED on R.
C4_WoundWaitScenario ==
  LET R == 1
      start == <<Call("LockExclusive", 1, R, "true"), Call("LockShared", 2, R, "blocked")>>
  IN /\ (Len(hist) = 3 /\ SubSeq(hist, 1, 2) = start
         /\ hist[3].op = "LockExclusive" /\ hist[3].txn = 0 /\ hist[3].rid = R)
        => /\ hist[3].out = "true"
           /\ state[1] = "ABORTED" /\ held[1][R] = {} /\ R \notin excl[1]
           /\ held[0][R] = {"EXCLUSIVE"}
     /\ (Len(hist) = 4 /\ SubSeq(hist, 1, 2) = start
         /\ hist[3].op = "LockExclusive" /\ hist[3].txn = 0 /\ hist[3].rid = R
         /\ hist[4] = Call("Unlock", 0, R, "true")
         /\ last.txn = 2 /\ last.op = "LockShared")
        => /\ last.val = TRUE
           /\ held[2][R] = {"SHARED"} /\ R \in shared[2]

\* C5: T0 and the younger T1 hold SHARED on R and T1 calls LockUpgrade(R):
\* the call blocks, and when it returns after T0 has unlocked R, T1 not having
\* been wounded, it returns true with T1 holding EXCLUSIVE on R.
C5_UpgradeWaitsThenSucceeds ==
  LET R == 1
      start == <<Call("LockShared", 0, R, "true"), Call("LockShared", 1, R, "true")>>
  IN /\ (Len(hist) >= 3 /\ SubSeq(hist, 1, 2) = start
         /\ hist[3].op = "LockUpgrade" /\ hist[3].txn = 1 /\ hist[3].rid = R)
        => hist[3].out = "blocked"
     /\ (Len(hist) = 4 /\ SubSeq(hist, 1, 2) = start
         /\ hist[3] = Call("LockUpgrade", 1, R, "blocked")
         /\ hist[4] = Call("Unlock", 0, R, "true")
         /\ last.txn = 1 /\ last.op = "LockUpgrade" /\ 1 \notin wounded)
        => /\ last.val = TRUE
           /\ held[1][R] = {"EXCLUSIVE"} /\ R \in excl[1]

\* C6: T1 and the younger T2 hold SHARED on R and T1 calls LockUpgrade(R): T2
\* is wounded (ABORTED, its entry erased, R out of its lock sets), the call
\* returns true with T1 holding EXCLUSIVE as the only entry of the queue; a
\* later Unlock(T2, R) returns false.
C6_UpgradeWoundsYounger ==
  LET R == 1
      bothShared(h) == \/ h = <<Call("LockShared", 1, R, "true"), Call("LockShared", 2, R, "true")>>
                       \/ h = <<Call("LockShared", 2, R, "true"), Call("LockShared", 1, R, "true")>>
      upgraded == /\ Len(hist) >= 3 /\ bothShared(SubSeq(hist, 1, 2))
                  /\ hist[3].op = "LockUpgrade" /\ hist[3].txn = 1 /\ hist[3].rid = R
  IN /\ upgraded => hist[3].out = "true"
     /\ (upgraded /\ Len(hist) = 3)
        => /\ state[2] = "ABORTED" /\ 2 \in wounded
           /\ 2 \notin QueueTxns(queue[R])
           /\ R \notin shared[2] /\ R \notin excl[2]
           /\ Len(queue[R]) = 1
           /\ queue[R][1].txn_id = 1 /\ queue[R][1].lock_mode = "EXCLUSIVE"
           /\ held[1][R] = {"EXCLUSIVE"} /\ R \in excl[1] /\ R \notin shared[1]
     /\ (upgraded /\ Len(hist) = 4 /\ hist[4].op = "Unlock" /\ hist[4].txn = 2
         /\ hist[4].rid = R)
        => hist[4].out = "false"

\* The four calls of the scenario of C6 were made.
C6_Witness ==
  hist = <<Call("LockShared", 1, 1, "true"), Call("LockShared", 2, 1, "true"),
           Call("LockUpgrade", 1, 1, "true"), Call("Unlock", 2, 1, "false")>>

\* C7: a wounded transaction stays ABORTED, and every lock call it makes, as
\* well as the LockShared or LockUpgrade call it slept in when it was wounded,
\* returns false and grants it nothing.
C7_WoundedIsRefused ==
  [][\A t \in wounded :
       /\ state[t] = "ABORTED" /\ state'[t] = "ABORTED"
       /\ ((\E r \in Rids : LockCallBy(t, r)) \/ ResumeShared(t) \/ ResumeUpgrade(t))
            => /\ last'.txn = t /\ last'.op \in LockOps /\ last'.val = FALSE
               /\ pc'[t] = "idle"
               /\ held'[t] = held[t]
               /\ shared'[t] = shared[t] /\ excl'[t] = excl[t]
               /\ queue' = queue]_vars

\* A transaction that slept in LockShared when it was wounded got false.
C7_Witness ==
  /\ last.op = "LockShared" /\ last.slept /\ last.val = FALSE
  /\ last.txn \in wounded /\ state[last.txn] = "ABORTED"

\* C8: a successful Unlock moves a GROWING transaction to SHRINKING exactly
\* when it releases an EXCLUSIVE lock, or a SHARED lock under REPEATABLE_READ;
\* Unlock changes no state other than GROWING.
C8_UnlockStateChange ==
  [][\A t \in TxnIds : \A r \in Rids :
       (Unlock(t, r) /\ ~crashed') =>
          /\ state[t] # "GROWING" => state'[t] = state[t]
          /\ state'[t] \in {state[t], "SHRINKING"}
          /\ \A u \in TxnIds \ {t} : state'[u] = state[u]
          /\ (state[t] = "GROWING" /\ last'.val = TRUE /\ last'.txn = t) =>
               (state'[t] = "SHRINKING" <=>
                  \/ "EXCLUSIVE" \in held[t][r]
                  \/ ("SHARED" \in held[t][r] /\ iso[t] = "REPEATABLE_READ"))]_vars

\* A READ_COMMITTED transaction released a SHARED lock and is still GROWING.
C8_Witness ==
  /\ last.op = "Unlock" /\ last.val = TRUE /\ last.pre = "GROWING"
  /\ iso[last.txn] = "READ_COMMITTED" /\ state[last.txn] = "GROWING"


\* ----------------------------------------------------- claims: hash index

\* C9: after any sequence of Insert and Remove calls, GetValue(k) returns
\* exactly the values v for which an Insert(k, v) returned true and no later
\* Remove(k, v) returned true.
C9_GetValueAgreesWithReference ==
  ~table.aborted =>
    \A key \in Keys :
      LET result == GetValue(table, key).result
      IN /\ {result[i] : i \in 1..Len(result)} = {v \in Values : <<key, v>> \in ref}
         /\ Len(result) = Cardinality({v \in Values : <<key, v>> \in ref})

\* C10: after every operation, two directory slots hold the same bucket page
\* id exactly when they agree in the low local_depth bits of that bucket, and
\* all slots of one bucket carry the same local depth.
C10_DirectoryAliasing ==
  (~table.aborted /\ table.directory_page_id # INVALID_PAGE_ID) =>
    \A i, j \in 0..(Size(table) - 1) :
      /\ table.bucket_page_ids[i] = table.bucket_page_ids[j]
           => table.local_depths[i] = table.local_depths[j]
      /\ table.bucket_page_ids[i] = table.bucket_page_ids[j]
           <=> BitAnd(i, GetLocalDepthMask(table, i)) = BitAnd(j, GetLocalDepthMask(table, i))

\* C11: after every Insert, Remove and Merge, every directory slot below the
\* directory size has a local depth of at most the global depth, and the
\* global depth is at most MAX_BUCKET_DEPTH, the directory size at most 512.
C11_DepthsWithinGlobal ==
  (~table.aborted /\ table.directory_page_id # INVALID_PAGE_ID) =>
    /\ table.global_depth <= MAX_BUCKET_DEPTH
    /\ Size(table) <= 512
    /\ DOMAIN table.local_depths = 0..(Size(table) - 1)
    /\ \A i \in 0..(Size(table) - 1) : table.local_depths[i] <= table.global_depth

\* Two keys that agree in their low eight bits are stored: the directory has
\* grown to its largest size.
C11_Witness ==
  /\ ~table.aborted
  /\ table.global_depth = MAX_BUCKET_DEPTH
  /\ {<<0, 1>>, <<256, 1>>} \subseteq ref

\* C12: when a hash table operation returns, on every path, the pin count of
\* every page it fetched or created is back to its value before the call:
\* between calls no directory page and no bucket page is pinned.
C12_NoPageStaysPinned ==
  ~table.aborted => \A p \in 0..(table.next_page_id - 1) : PinCount(table, p) = 0

\* How often GetValue(key) reports value.
Times(h, key, value) ==
  Only({Cardinality({i \in 1..Len(res) : res[i] = value})
        : res \in {GetValue(h, key).result}})

\* The bucket of key is full and its directory slot is at the largest depth.
FullAtMax(h, key) ==
  /\ IsFull(PageData(h, KeyToPageId(h, key)))
  /\ h.local_depths[KeyToDirectoryIndex(h, key)] >= MAX_BUCKET_DEPTH

C14_ConcurrentCallsAtomic ==
  (~table.aborted /\ \A t \in Threads : thread[t].pc = "idle") =>
    \A key \in 0..ConcMaxKey :
      \A value \in Values : Times(table, key, value) = (IF <<key, value>> \in ref THEN 1 ELSE 0)

C16_InsertThenRemove ==
  ~table.aborted =>
    \A key \in Keys, value \in Values : \A emptyDir \in BOOLEAN :
      Times(table, key, value) = 0 =>
        \E r1 \in {Insert(table, key, value)} :
          \E r2 \in {IF r1.aborted THEN r1 ELSE Remove(r1, key, value, emptyDir)} :
            (WithinBounds(r1) /\ WithinBounds(r2)) =>
              /\ ~r1.aborted /\ r1.ret
              /\ ~r2.aborted /\ r2.ret
              /\ \A k \in Keys : GetValue(r2, k).result = GetValue(table, k).result

\* C17: when Remove empties the bucket of slot b, and local_depth[b] > 0
\* equals the local depth of the split image of b, then the empty bucket page
\* is deleted, every directory slot that pointed to the deleted bucket or to
\* the image points to the image with a local depth one lower, and the global
\* depth has been decremented until some slot has a local depth equal to it.
C17_RemoveMergesEmptyBucket ==
  (~table.aborted /\ table.directory_page_id # INVALID_PAGE_ID) =>
    \A key \in Keys, value \in Values : \A emptyDir \in BOOLEAN :
      LET b == KeyToDirectoryIndex(table, key)
          image == GetSplitImageIndex(table, b)
          page == table.bucket_page_ids[b]
          image_page == table.bucket_page_ids[image]
          depth == table.local_depths[b]
      IN (/\ Times(table, key, value) = 1
          /\ NumReadable(PageData(table, page)) = 1
          /\ depth > 0
          /\ depth = table.local_depths[image])
         => \E r \in {Remove(table, key, value, emptyDir)} :
              /\ ~r.aborted /\ r.ret
              /\ page \in r.deleted
              /\ \A i \in 0..(Size(r) - 1) :
                   table.bucket_page_ids[i] \in {page, image_page}
                     => /\ r.bucket_page_ids[i] = image_page
                        /\ r.local_depths[i] = depth - 1
              /\ ~CanShrink(r)

\* Remove(k1, v) and then Remove(k2, v) on h, when the first one returns.
RemoveBoth(h, k1, k2, value, e1, e2) ==
  Only({IF r1.aborted THEN r1 ELSE Remove(r1, k2, value, e2)
        : r1 \in {Remove(h, k1, value, e1)}})

\* The index is back at global depth 0 with a single bucket.
BackToOneBucket(h) ==
  /\ ~h.aborted
  /\ h.global_depth = 0
  /\ h.local_depths[0] = 0
  /\ h.bucket_page_ids[0] \notin h.deleted

\* C18: from an index that grew by splits and holds exactly the keys 0 and 4,
\* removing both keys, in either order, brings the directory back to global
\* depth 0 with a single bucket; in general, removing the last stored pair
\* leaves the index at global depth 0 with one bucket.
C18_RemoveAllShrinks ==
  ~table.aborted =>
    \A e1, e2 \in BOOLEAN :
      /\ (ref = {<<0, 1>>, <<4, 1>>} /\ table.global_depth > 0)
           => /\ BackToOneBucket(RemoveBoth(table, 0, 4, 1, e1, e2))
              /\ BackToOneBucket(RemoveBoth(table, 4, 0, 1, e1, e2))
      /\ \A key \in Keys :
           (ref = {<<key, 1>>} /\ Times(table, key, 1) = 1)
             => BackToOneBucket(Remove(table, key, 1, e1))

\* C19: Victim on a non-empty replacer returns and removes the frame that has
\* been in the replacer longest (the one whose effective Unpin is the oldest
\* among the frames present) and leaves the order of the others unchanged; on
\* an empty replacer it returns false and changes nothing.
C19_VictimTakesOldest ==
  [][\A input \in VictimInputs : Victim(input) =>
       IF list_ = <<>>
       THEN /\ lruLast' = LRUCall("Victim", input, FALSE)
            /\ list_' = list_ /\ map_' = map_ /\ max_size_' = max_size_
       ELSE /\ lruLast' = LRUCall("Victim", Head(arrival), TRUE)
            /\ Head(arrival) \in map_
            /\ list_' = Without(list_, Head(arrival))
            /\ Len(list_') = Len(list_) - 1
            /\ map_' = map_ \ {Head(arrival)}
            /\ max_size_' = max_size_]_vars

\* A Victim call has returned a frame and left at least two others behind, the
\* older of which came in after a Pin had taken a frame out.
C19_Witness ==
  /\ lruLast.op = "Victim"
  /\ lruLast.ok
  /\ Len(list_) >= 2
  /\ lruLast.frame > arrival[1]
  /\ arrival[1] > arrival[2]

\* The first calls of the scenario: Unpin(1), Unpin(2), Unpin(3), Unpin(4),
\* Victim, Unpin(5), Victim, as far as n calls.
ScenarioOps == <<"Unpin", "Unpin", "Unpin", "Unpin", "Victim", "Unpin", "Victim">>
ScenarioFrames == <<1, 2, 3, 4, 0, 5, 0>>
InScenario(n) ==
  /\ lruHist.on
  /\ max_size_ = 4
  /\ Len(lruHist.calls) >= n
  /\ \A i \in 1..n : lruHist.calls[i].op = ScenarioOps[i]
  /\ \A i \in 1..n : (ScenarioOps[i] = "Unpin") => (lruHist.calls[i].frame = ScenarioFrames[i])

\* C20 (amended): with a replacer of capacity 4, after Unpin(1), Unpin(2),
\* Unpin(3), Unpin(4), each of which puts its frame in, Victim returns 1; the
\* Unpin(5) that follows finds three frames and puts frame 5 in; the next
\* Victim returns 2.
C20_ScenarioUnpinFiveGoesIn ==
  /\ \A n \in 1..4 : InScenario(n) => lruHist.calls[n].ok
  /\ InScenario(5) => lruHist.calls[5] = LRUCall("Victim", 1, TRUE)
  /\ InScenario(6) => lruHist.calls[6].ok
  /\ (InScenario(6) /\ Len(lruHist.calls) = 6) => list_ = <<5, 4, 3, 2>>
  /\ InScenario(7) => lruHist.calls[7] = LRUCall("Victim", 2, TRUE)

\* The seven calls of the scenario have been made.
C20_Witness ==
  /\ InScenario(7)
  /\ Len(lruHist.calls) = 7
  /\ list_ = <<5, 4, 3>>

\* C20 as stated: the Unpin(5) of the scenario is a no-op.
C20_ScenarioUnpinFiveNoOp ==
  /\ InScenario(5) => lruHist.calls[5] = LRUCall("Victim", 1, TRUE)
  /\ InScenario(6) => ~lruHist.calls[6].ok
  /\ (InScenario(6) /\ Len(lruHist.calls) = 6) => list_ = <<4, 3, 2>>
  /\ InScenario(7) => lruHist.calls[7] = LRUCall("Victim", 2, TRUE)

\* C21: after any sequence of Victim, Pin and Unpin calls (each call holds the
\* latch from its first to its last statement, so calls of concurrent threads
\* happen one after another), Size() never exceeds num_pages, no frame id is
\* in the replacer twice, and an Unpin issued while the replacer holds
\* num_pages frames changes nothing.
C21_ReplacerBounded ==
  /\ [](/\ Len(list_) <= max_size_
        /\ Cardinality(Range(list_)) = Len(list_)
        /\ map_ = Range(list_)
        /\ (lruLast.op = "Size") => (lruLast.frame <= max_size_))
  /\ [][\A frame_id \in Frames : (Unpin(frame_id) /\ Len(list_) = max_size_) => UNCHANGED <<list_, map_, max_size_>>]_vars

\* An Unpin of a frame that is not in the replacer has returned from a
\* replacer that holds num_pages frames, at least two.
C21_Witness ==
  /\ lruLast.op = "Unpin"
  /\ ~lruLast.ok
  /\ lruLast.frame \notin map_
  /\ Len(list_) = max_size_
  /\ max_size_ >= 2

\* C22: Unpin of a frame that is already in the replacer leaves the replacer
\* exactly as it was, order included, and so does an Unpin(f) that follows an
\* Unpin(f) directly: the replacer after Unpin(f); Unpin(f) is the replacer
\* after the first Unpin(f), so every later Victim sequence gives the same.
C22_UnpinIdempotent ==
  [][\A frame_id \in Frames : (Unpin(frame_id) /\ (frame_id \in Range(list_) \/ lruLast = LRUCall("Unpin", frame_id, TRUE) \/ lruLast = LRUCall("Unpin", frame_id, FALSE))) => UNCHANGED <<list_, map_, max_size_>>]_vars

\* Unpin(f) has returned for the least recently unpinned frame f of a replacer
\* that holds other frames and has room: f is still the least recently
\* unpinned one.
C22_Witness ==
  /\ lruLast.op = "Unpin"
  /\ ~lruLast.ok
  /\ Len(list_) >= 2
  /\ Len(list_) < max_size_
  /\ lruLast.frame = list_[Len(list_)]
  /\ lruLast.frame = arrival[1]

\* C23: Pin(f) removes f from the replacer when it is present, keeps the
\* relative order of every other frame, and changes nothing when f is absent;
\* after Pin(f) no Victim call returns f until a later Unpin(f) has added it
\* again (arrival holds the frames added by Unpin and not taken out by Pin or
\* Victim since).
C23_PinRemoves ==
  /\ [][\A frame_id \in Frames : Pin(frame_id) =>
          /\ list_' = Without(list_, frame_id)
          /\ Range(list_') = Range(list_) \ {frame_id}
          /\ frame_id \notin Range(list_) => list_' = list_
          /\ max_size_' = max_size_]_vars
  /\ [][(\E input \in VictimInputs : Victim(input)) => (lruLast'.ok => lruLast'.frame \in Range(arrival))]_vars

\* Pin has taken a frame from the middle of a replacer that holds at least
\* three frames.
C23_Witness ==
  /\ lruLast.op = "Pin"
  /\ Len(list_) >= 2
  /\ lruLast.frame \notin Range(list_)
  /\ \E i \in 1..Len(arrival) : \E j \in 1..Len(arrival) : arrival[i] < lruLast.frame /\ lruLast.frame < arrival[j] /\ i < j

\* The instance has a frame to give: a free one or one in its replacer.
HasVictim(bp) == bp.free_list # <<>> \/ bp.replacer # <<>>

\* C24: FetchPage, UnpinPage, FlushPage and DeletePage for a page id p are
\* served by instance p % num_instances and by no other, every page id that
\* NewPage obtains from instance i satisfies p % num_instances = i, and every
\* resident page is held by the instance its page id routes to.
C24_RoutedByPageId ==
  /\ (bpLast.op \in {"FetchPage", "UnpinPage", "FlushPage", "DeletePage"} /\ bpLast.page_id >= 0) => (bpLast.served = <<bpLast.page_id % NumInstances>>)
  /\ (bpLast.op \in {"FetchPage", "UnpinPage", "FlushPage", "DeletePage"}) => (Len(bpLast.served) = 1 /\ bpLast.served[1] \in Instances)
  /\ (bpLast.op = "NewPage" /\ bpLast.ok) => (bpLast.ret >= 0 /\ bpLast.ret % NumInstances = bpLast.served[Len(bpLast.served)])
  /\ \A i \in Instances : \A p \in DOMAIN buffer_pools_[i].page_table : (p >= 0) => (p % NumInstances = i)

\* UnpinPage has succeeded on a page id above num_instances that NewPage
\* allocated.
C24_Witness ==
  /\ bpLast.op = "UnpinPage"
  /\ bpLast.ok
  /\ bpLast.page_id >= NumInstances
  /\ \E i \in Instances : buffer_pools_[i].next_page_id > bpLast.page_id /\ Resident(buffer_pools_[i], bpLast.page_id)

\* C25: NewPage probes the instances in cyclic order starting at the cursor,
\* calls each instance at most once, returns the page of the first instance
\* that succeeds, fails only when all instances failed, and advances the
\* cursor by exactly one whether it succeeded or not.
C25_NewPageRoundRobin ==
  [][NewPgImp =>
       \E served \in {bpLast'.served} :
         /\ bpLast'.op = "NewPage"
         /\ Len(served) \in 1..NumInstances
         /\ \A k \in 1..Len(served) : served[k] = ((start_index_ % NumInstances) + k - 1) % NumInstances
         /\ \A k \in 1..(Len(served) - 1) : ~HasVictim(buffer_pools_[served[k]])
         /\ bpLast'.ok <=> HasVictim(buffer_pools_[served[Len(served)]])
         /\ bpLast'.ok => /\ bpLast'.ret = buffer_pools_[served[Len(served)]].next_page_id
                          /\ Resident(buffer_pools_'[served[Len(served)]], bpLast'.ret)
         /\ (~bpLast'.ok) => (Len(served) = NumInstances /\ bpLast'.ret = INVALID_PAGE_ID)
         /\ start_index_' = start_index_ + 1]_vars

\* A NewPage call that started at instance 1 has found it without a frame
\* and returned a page of instance 0.
C25_Witness ==
  /\ bpLast.op = "NewPage"
  /\ bpLast.ok
  /\ bpLast.start % NumInstances = 1
  /\ bpLast.served = <<1, 0>>
  /\ start_index_ = bpLast.start + 1

\* C26: after any sequence of FetchPage, NewPage, UnpinPage, DeletePage and
\* FlushPage, every resident page (with a valid page id) of every instance has
\* pin_count >= 0 and its frame is in the replacer if and only if its
\* pin_count is 0.
C26_ReplacerIffUnpinned ==
  \A i \in Instances : \A p \in (DOMAIN buffer_pools_[i].page_table) \ {INVALID_PAGE_ID} :
    \E f \in {buffer_pools_[i].page_table[p]} :
      /\ buffer_pools_[i].frames[f].pin_count >= 0
      /\ (f \in Range(buffer_pools_[i].replacer)) <=> (buffer_pools_[i].frames[f].pin_count = 0)

\* C30: each time a transaction blocked in LockShared wakes from the condition
\* variable, by a notification or spuriously, it returns true only if at that
\* moment no transaction with a smaller id holds EXCLUSIVE on the rid;
\* otherwise it waits again.
C30_WakeRevalidates ==
  [][\A t \in TxnIds : ResumeShared(t) =>
       \E older \in {{u \in TxnIds : u < t /\ arg[t] \in excl[u]}} :
         /\ (pc'[t] = "idle" /\ last'.txn = t /\ last'.op = "LockShared" /\ last'.val) => (older = {})
         /\ (older # {} /\ state[t] # "ABORTED") => (pc'[t] = "ShareWait")]_vars

\* C27: with a lock manager present, Delete and Update modify a tuple only
\* while the transaction holds the EXCLUSIVE lock on its rid, under every
\* isolation level, and a row whose lock call returned false is not modified.
C27_WritersHoldExclusive ==
  execLast.ev = "write" => (execLast.locked /\ execLast.lockret # "false")

\* C28: SeqScan calls no lock under READ_UNCOMMITTED; under READ_COMMITTED a
\* row is read under a lock and the lock the scan took is released before the
\* next row; under REPEATABLE_READ the SHARED locks the scan took are held
\* when it ends (unless the transaction was wounded meanwhile); a lock held
\* before the scan reached the row is not released.
C28_ScanLocking ==
  /\ (execLast.ev = "LockShared" => iso[execLast.txn] # "READ_UNCOMMITTED")
  /\ ((execLast.ev = "read" /\ iso[execLast.txn] = "READ_COMMITTED") => (execLast.locked /\ (~execLast.pre => ~execLast.after)))
  /\ ((execLast.ev = "end" /\ iso[execLast.txn] = "REPEATABLE_READ" /\ state[execLast.txn] # "ABORTED") => (execLast.lost = {}))
  /\ ((execLast.ev = "read" /\ execLast.pre) => execLast.after)

\* The nested-loop equi-join of two tuple sequences, right tuples outermost.
RECURSIVE Matches(_, _)
Matches(left, r) == IF left = <<>> THEN <<>> ELSE (IF Head(left).key = r.key THEN <<[l |-> Head(left), r |-> r]>> ELSE <<>>) \o Matches(Tail(left), r)

RECURSIVE NestedLoopJoin(_, _)
NestedLoopJoin(left, right) == IF right = <<>> THEN <<>> ELSE Matches(left, Head(right)) \o NestedLoopJoin(left, Tail(right))

\* C29: the tuples HashJoin returns are, in this order, the pairs of the
\* nested-loop equi-join (right tuples in child order, for each the matching
\* left tuples in child order), each once, and Next returns false exactly when
\* all of them have been returned.
C29_HashJoinIsEquiJoin ==
  /\ [](join.at \in {"ready", "done"} =>
         \E nlj \in {NestedLoopJoin(join.left, join.right)} :
           /\ Len(join.out) <= Len(nlj)
           /\ join.out = SubSeq(nlj, 1, Len(join.out))
           /\ (join.at = "done" => join.out = nlj))
  /\ [][(join.at = "ready" /\ join.out = NestedLoopJoin(join.left, join.right)) => join'.at = "done"]_vars

\* A finished join in which one right tuple met two left tuples and some
\* pair of a left and a right tuple did not match.
C29_Witness ==
  /\ join.at = "done"
  /\ Len(join.out) < Len(join.left) * Len(join.right)
  /\ \E i \in 1..(Len(join.out) - 1) : join.out[i].r = join.out[i + 1].r /\ join.out[i].l # join.out[i + 1].l

\* C31: for every rid, upgrading_ is true only while some transaction is
\* inside LockUpgrade on that rid (asleep in it or woken and about to run it
\* again): with no LockUpgrade call in progress on the rid the flag is false.
C31_UpgradingOnlyDuringUpgrade ==
  \A r \in Rids : upgrading[r] => \E t \in TxnIds : pc[t] \in {"upgWait", "upgCheck"} /\ arg[t] = r

\* C32: LockExclusive called by T erases queue entries and aborts their
\* transactions only when their id is larger than T's, keeps T's own entry,
\* and when the queue it scans holds an entry with a smaller id T becomes
\* ABORTED and the call returns false; for every id, 9 included.
C32_ExclusiveWoundsOnlyYounger ==
  [][\A t \in TxnIds, r \in Rids : LockExclusive(t, r) =>
       /\ \A u \in TxnIds \ {t} : (state[u] # "ABORTED" /\ state'[u] = "ABORTED") => u > t
       /\ \A u \in QueueTxns(queue[r]) \ QueueTxns(queue'[r]) : u > t
       /\ \A i \in 1..Len(queue[r]) : queue[r][i].txn_id = t =>
            (\E j \in 1..Len(queue'[r]) : queue'[r][j].txn_id = t /\ queue'[r][j].lock_mode = queue[r][i].lock_mode)
       /\ (state[t] = "GROWING" /\ r \notin excl[t] /\ (\E u \in QueueTxns(queue[r]) : u < t))
            => (state'[t] = "ABORTED" /\ ~last'.val)]_vars

\* C33: every Unlock that returns true wakes every transaction asleep on the
\* condition variable of that rid, whichever mode was released and whatever
\* is left in the queue.
C33_UnlockWakesAllWaiters ==
  [][\A t \in TxnIds, r \in Rids : (Unlock(t, r) /\ last'.val) =>
       \A u \in TxnIds : (arg[u] = r /\ pc[u] \in {"ShareWait", "upgWait"}) => pc'[u] \in {"ShareCheck", "upgCheck"}]_vars

\* C34: when a LockUpgrade call of a transaction that holds SHARED on the rid
\* gets past the scan, the queue holds exactly one entry, the caller's: the
\* two assertions before the mode change do not fail, and the call returns
\* true leaving the caller's EXCLUSIVE entry as the only one.
C34_UpgradeAssertionsHold ==
  [][\A t \in TxnIds, r \in Rids :
       ((LockUpgrade(t, r) \/ (ResumeUpgrade(t) /\ arg[t] = r)) /\ r \in shared[t]) =>
          /\ ~crashed'
          /\ (last'.op = "LockUpgrade" /\ last'.txn = t /\ last'.val) =>
               (Len(queue'[r]) = 1 /\ queue'[r][1].txn_id = t /\ queue'[r][1].lock_mode = "EXCLUSIVE")]_vars

\* An upgrade was granted to a SHARED holder after wounding a younger holder.
C34_Witness ==
  /\ last.op = "LockUpgrade"
  /\ last.val
  /\ last.rid \in excl[last.txn]
  /\ last.rid \notin shared[last.txn]
  /\ wounded # {}
  /\ ~crashed

\* C40: for every transaction T and rid R, the queue of R holds at most one
\* entry of T, it holds one exactly when R is in T's shared or exclusive lock
\* set, the entry is SHARED when R is in T's shared set and EXCLUSIVE
\* otherwise, and the mode assertion of Unlock never fails.
C40_QueueMatchesLockSets ==
  /\ [](\A t \in TxnIds, r \in Rids :
          \E mine \in {{i \in 1..Len(queue[r]) : queue[r][i].txn_id = t}} :
            /\ Cardinality(mine) <= 1
            /\ (mine # {}) <=> (r \in shared[t] \cup excl[t])
            /\ \A i \in mine : queue[r][i].lock_mode = (IF r \in shared[t] THEN "SHARED" ELSE "EXCLUSIVE"))
  /\ [][\A t \in TxnIds, r \in Rids : Unlock(t, r) => ~crashed']_vars

\* C35: a Merge(bucket_index) that deletes a page deletes the page directory
\* slot bucket_index points to, and only when that page has no readable entry,
\* whatever the other threads did between Remove and Merge.
C35_MergeDeletesOnlyEmptyBucket ==
  [][\A t \in Threads : MergeSection(t) =>
       \A p \in table'.deleted \ table.deleted :
          /\ p = table.bucket_page_ids[thread[t].bucket_index]
          /\ IsEmpty(PageData(table, p))]_vars

\* C36: in every bucket page, a slot whose occupied bit is set keeps it set
\* through every later call on the index (Remove clears only the readable
\* bit, and so does a split), and a readable slot is always occupied.
C36_OccupiedNeverCleared ==
  /\ [](\A p \in DOMAIN table.pages : \A i \in DOMAIN table.pages[p] :
          table.pages[p][i].readable => table.pages[p][i].occupied)
  /\ [][\A p \in DOMAIN table.pages : \A i \in DOMAIN table.pages[p] :
          table.pages[p][i].occupied => table'.pages[p][i].occupied]_vars

RECURSIVE SplitsOf(_, _, _)
\* The splits one Insert(key, value) call carries out, in order: for each, the
\* table as line 176 finds it (before) and as line 202 leaves it (after).
SplitsOf(h0, key, value) ==
  Only({IF ~t.full THEN <<>>
        ELSE Only({IF \/ DepthExhausted(h1.local_depths[KeyToDirectoryIndex(h1, key)])
                      \/ h1.next_page_id > h1.page_bound
                   THEN <<>>
                   ELSE Only({Only({<<[before |-> h3,
                                 after |-> SplitRehash(h3, key, KeyToDirectoryIndex(h1, key))]>>
                                \o (IF s.again THEN SplitsOf(s.h, key, value) ELSE <<>>)
 : s \in {SplitInsert(t.h, key, value)}})
 : h3 \in {IncrLocalDepth(IF h1.local_depths[KeyToDirectoryIndex(h1, key)] = h1.global_depth
                          THEN IncrGlobalDepth(h1) ELSE h1,
                          KeyToDirectoryIndex(h1, key))}})
 : h1 \in {FetchDirectoryPage(t.h)}})
 : t \in {InsertTry(h0, key, value)}})

\* The rehash loop of one split ran through: no assertion failed, and the
\* split bucket and the new bucket together hold as many readable entries as
\* the split bucket held.
RehashKeepsEntries(sp, key) ==
  /\ ~sp.after.aborted
  /\ NumReadable(PageData(sp.after, KeyToPageId(sp.before, key)))
       + NumReadable(PageData(sp.after, sp.before.next_page_id))
     = NumReadable(PageData(sp.before, KeyToPageId(sp.before, key)))

\* The same calls on keys that send one bucket through two splits in a row
\* under a directory of global depth 3.
SplitKeys == {0, 4, 5, 7}

NextSplit ==
  \/ \E key \in SplitKeys, value \in Values : InsertCall(key, value)
  \/ \E key \in SplitKeys, value \in Values : RemoveCall(key, value)
  \/ \E key \in SplitKeys : GetValueCall(key)

SpecHTSplit == InitIndex /\ [][NextSplit]_vars

\* C37: in every split of every Insert call the index can be given, each entry
\* of the split bucket rehashes to a slot of the split bucket or of the new
\* bucket and is inserted again (the assertions of lines 196, 198 and 200
\* hold), and the two buckets together hold as many readable entries as the
\* split bucket held.
C37_RehashAssertionsHold ==
  ~table.aborted =>
    \A key \in SplitKeys, value \in Values :
       \E splits \in {SplitsOf(table, key, value)} :
          \A i \in DOMAIN splits : RehashKeepsEntries(splits[i], key)

\* C38: whatever call the index is given in a reachable state, every
\* assert(UnpinPage(..)) and assert(DeletePage(..)) of the call holds: the page
\* unpinned is pinned, the page deleted is not.
C38_AssertedCallsSucceed ==
  ~table.aborted =>
    \A key \in Keys, value \in Values :
       /\ ~Insert(table, key, value).aborted
       /\ ~GetValue(table, key).h.aborted
       /\ \A emptyDir \in BOOLEAN : ~Remove(table, key, value, emptyDir).aborted

\* The pair (key, value) is readable in the bucket the key maps to.
Stored(h, key, value) ==
  \E i \in Readable(PageData(h, KeyToPageId(h, key))) :
     /\ PageData(h, KeyToPageId(h, key))[i].key = key
     /\ PageData(h, KeyToPageId(h, key))[i].value = value

\* C39: an Insert of a pair that is already stored leaves the global depth,
\* the local depths, the bucket page ids and the content of every bucket page
\* as they were, also when the bucket that holds the pair is full.
C39_DuplicateInsertChangesNothing ==
  [][\A key \in DeepKeys, value \in Values :
       (InsertCall(key, value) /\ Stored(table, key, value)) =>
          /\ table'.global_depth = table.global_depth
          /\ table'.local_depths = table.local_depths
          /\ table'.bucket_page_ids = table.bucket_page_ids
          /\ table'.pages = table.pages]_vars

====
